---- MODULE Spec2Model ----
(***************************************************************************)
(* GEOSeis 2.1: the station-selection / data-acquisition orchestrator.     *)
(*                                                                         *)
(* The module models the Streamlit session state of GEOSeisV2              *)
(* (src/GEOSeis2_1.py) and the StreamlinedDataManager                      *)
(* (src/data_manager.py) that the views drive.                             *)
(*                                                                         *)
(* The specifications share the data-manager operators:                    *)
(*   SpecConc   interleaved search_stations calls (suspension point: the   *)
(*              inventory query),                                          *)
(*   SpecCache  the data-manager API driven directly, with a clock,        *)
(*   SpecNum    calculate_ms_magnitude called directly, call after call,   *)
(*   SpecWaves  the surface-wave routines called directly,                 *)
(*   SpecSelect search_stations on an arbitrary inventory,                 *)
(*   Spec       the application: one action per script run of              *)
(*              GEOSeisV2.run and the widget the user operated,            *)
(*   SpecFlight the application with the waveform download suspended at    *)
(*              the FDSN request while other script runs render,           *)
(*   SpecPair   the application with station lists of two stations,        *)
(*   SpecFallback  the automatic fallback under fair re-rendering,         *)
(*   SpecAcquire   download_waveform_data on arbitrary FDSN answers,       *)
(*   SpecWindow    the Ms time window cut from a downloaded record,        *)
(*   SpecSignal    the filter and the spike removal called directly.       *)
(***************************************************************************)
EXTENDS Integers, Sequences, FiniteSets, TLC

VARIABLES
    ss,         \* st.session_state: one field per attribute the code uses
    now,        \* datetime.now(), in hours
    screen,     \* the widgets the latest script run left on the page
    \* ---- interleaved search_stations calls (SpecConc) ----
    callPc, callKey, callResult, callDupOf,
    \* ---- history variables, read by the properties only ----
    stored_at,  \* the hour each station_results entry was stored
    obs,        \* the latest direct data-manager call and what it returned
    calc,       \* the latest direct call of a numerical routine
                \* (SpecNum, SpecWaves)
    reads,      \* what the latest script run searched and displayed
    unrecorded, \* stations whose download returned None since the last reset
                \* of the failed set and that are not in the failed set
    attempted,  \* stations whose download returned None since they were
                \* selected last
    chain,      \* stations a download was attempted for since the user
                \* selected a station last
    flight      \* the cache key of the download waiting for the FDSN service
                \* (SpecFlight)

concVars == <<callPc, callKey, callResult, callDupOf>>
obsVars  == <<stored_at, obs, calc>>
uiVars   == <<screen, reads, unrecorded, attempted, chain, flight>>
vars     == <<ss, now, concVars, obsVars, uiVars>>

(***************************************************************************)
(* Bounds of the model.                                                    *)
(***************************************************************************)
MaxEvents   == 2    \* earthquakes the user can select
NumStations == 4    \* stations of the inventory
MaxTarget   == 1    \* largest "Antal stationer" the user enters
MaxCalls    == 3    \* interleaved search_stations calls
MaxEqKeys   == 3    \* distinct earthquake-search parameter tuples
MaxHits     == 2    \* largest catalog size a query returns
MaxTicks    == 2    \* the clock stops after this many ticks
\* _clean_cache keeps max_entries = 50 entries (src/data_manager.py:1936); the
\* model keeps the cap symbolic and small so that a cache can exceed it.
MaxEntries  == 2

\* _check_cache(max_age_hours=24)
max_age_hours == 24
TickHours     == max_age_hours \div 2     \* the clock advances in half TTLs
MaxNow        == MaxTicks * TickHours

Events   == 1..MaxEvents
Stations == 1..NumStations
Targets  == 1..MaxTarget
EqKeys   == 1..MaxEqKeys

NoEvent   == 0
NoStation == 0
NoKey     == <<>>

(***************************************************************************)
(* The inventory the FDSN service returns and the priority tables of       *)
(* _process_stations.                                                      *)
(***************************************************************************)
Network(s) ==
    CASE s % 4 = 1 -> "GT"
      [] s % 4 = 2 -> "IU"
      [] s % 4 = 3 -> "GE"
      [] OTHER     -> "II"

network_scores(net) ==
    CASE net = "IU" -> 1
      [] net = "II" -> 1
      [] net = "G"  -> 2
      [] net = "GE" -> 2
      [] net = "GT" -> 3
      [] net = "IC" -> 4
      [] net = "CU" -> 5
      [] net = "US" -> 6
      [] net = "TA" -> 7
      [] net = "N4" -> 8
      [] OTHER      -> 99

\* best channel priority of the station (99: no channel listed)
ChannelPriority(s) == IF s % 2 = 0 THEN 1 ELSE 99

\* gps2dist_azimuth(event, station) / 1000
DistanceKm(e, s) == 400 - 800 * (e - 1) + (600 + 1000 * (e - 1)) * s

\* the (min_km, max_km) pairs of the search form
Rings == {<<1500, 3000>>}

\* f"exec_{time}_{min}_{max}_{target}"
execution_key(e, ring, target) == <<e, ring, target>>

(***************************************************************************)
(* _process_stations: the in-range stations, in inventory order.           *)
(***************************************************************************)
InRange(e, ring, s) == ring[1] <= DistanceKm(e, s) /\ DistanceKm(e, s) <= ring[2]

RECURSIVE ProcessFrom(_, _, _)
ProcessFrom(e, ring, s) ==
    IF s > NumStations THEN <<>>
    ELSE IF InRange(e, ring, s) THEN <<s>> \o ProcessFrom(e, ring, s + 1)
    ELSE ProcessFrom(e, ring, s + 1)

_process_stations(e, ring) == ProcessFrom(e, ring, 1)

(***************************************************************************)
(* The sort key of search_stations and the stable sort on it.              *)
(***************************************************************************)
\* the key of a station dict x (lines 318-323)
sort_key_unbinned(x) ==
    <<network_scores(x.network), 0, x.channel_priority, x.distance_km>>

sort_key(x) ==
    <<network_scores(x.network),
      IF network_scores(x.network) <= 2 THEN 0 ELSE x.distance_km \div 500,
      x.channel_priority,
      x.distance_km>>

\* the key of station s of the inventory for event e
SortKey(e, s) ==
    sort_key([network |-> Network(s), channel_priority |-> ChannelPriority(s),
              distance_km |-> DistanceKm(e, s)])

RECURSIVE LexLess(_, _)
LexLess(a, b) ==
    IF a = <<>> \/ b = <<>> THEN FALSE
    ELSE IF Head(a) # Head(b) THEN Head(a) < Head(b)
    ELSE LexLess(Tail(a), Tail(b))

\* insert s behind every element that does not sort after it (stable)
RECURSIVE InsertSorted(_, _, _)
InsertSorted(e, s, seq) ==
    IF seq = <<>> THEN <<s>>
    ELSE IF LexLess(SortKey(e, s), SortKey(e, Head(seq)))
         THEN <<s>> \o seq
         ELSE <<Head(seq)>> \o InsertSorted(e, s, Tail(seq))

RECURSIVE SortStations(_, _)
SortStations(e, seq) ==
    IF seq = <<>> THEN <<>>
    ELSE InsertSorted(e, seq[Len(seq)], SortStations(e, SubSeq(seq, 1, Len(seq) - 1)))

Take(seq, n) == SubSeq(seq, 1, IF n < Len(seq) THEN n ELSE Len(seq))

SeqRange(seq) == {seq[i] : i \in 1..Len(seq)}

\* the keys search_stations can be called with
SearchKeys == Events \X Rings \X (1..(2 * (MaxTarget + MaxEntries)))

\* what the service holds for each key: the in-range stations, and the list
\* search_stations computes from them when the inventory query succeeds
InRing == [k \in SearchKeys |-> _process_stations(k[1], k[2])]

SelectedStations ==
    [k \in SearchKeys |-> Take(SortStations(k[1], InRing[k]), k[3])]

\* outcomes of client.get_stations
InventoryOutcomes == {"ok", "error"}

(***************************************************************************)
(* search_stations, in the pieces its control flow has.                    *)
(*   lines 253-269: cache check and duplicate guard (before the try)       *)
(*   line  272:     executing_search = execution_key                       *)
(*   lines 275-340: the search (the inventory query suspends)              *)
(*   lines 342-347: finally, clear the flag if it still holds this key     *)
(***************************************************************************)
search_guard(sr, ex, k) ==
    IF k \in DOMAIN sr THEN "cached"
    ELSE IF ex = k THEN "duplicate"
    ELSE "execute"

\* the value returned by the try block
search_body_result(k, inv) ==
    IF inv = "ok" THEN SelectedStations[k] ELSE <<>>

\* station_results after the try block: written only when stations were found
search_body_cache(sr, k, inv) ==
    IF inv = "ok" /\ InRing[k] # <<>>
    THEN [x \in DOMAIN sr \cup {k} |-> IF x = k THEN SelectedStations[k] ELSE sr[x]]
    ELSE sr

\* the finally block
search_finally(ex, k) == IF ex = k THEN NoKey ELSE ex

\* One whole call that nothing interleaves with.
search_stations_result(sr, ex, k, inv) ==
    CASE search_guard(sr, ex, k) = "cached"    -> sr[k]
      [] search_guard(sr, ex, k) = "duplicate" -> <<>>
      [] OTHER                                 -> search_body_result(k, inv)

search_stations_cache(sr, ex, k, inv) ==
    IF search_guard(sr, ex, k) = "execute" THEN search_body_cache(sr, k, inv) ELSE sr

search_stations_flag(sr, ex, k) ==
    IF search_guard(sr, ex, k) = "execute" THEN search_finally(k, k) ELSE ex

(***************************************************************************)
(* SpecConc: search_stations calls interleaved at the inventory query.     *)
(***************************************************************************)
Calls == 1..MaxCalls

\* the call that is executing key k right now (0: none)
ExecutingCall(k) ==
    IF \E d \in Calls : callPc[d] = "querying" /\ callKey[d] = k
    THEN CHOOSE d \in Calls : callPc[d] = "querying" /\ callKey[d] = k
    ELSE 0

\* lines 253-272: up to the inventory query
SearchEnter(c, k) ==
    /\ callPc[c] = "idle"
    /\ callKey' = [callKey EXCEPT ![c] = k]
    /\ callDupOf' = [callDupOf EXCEPT ![c] = ExecutingCall(k)]
    /\ CASE search_guard(ss.station_results, ss.executing_search, k) = "cached" ->
                /\ callPc' = [callPc EXCEPT ![c] = "done"]
                /\ callResult' = [callResult EXCEPT ![c] = ss.station_results[k]]
                /\ UNCHANGED ss
         [] search_guard(ss.station_results, ss.executing_search, k) = "duplicate" ->
                /\ callPc' = [callPc EXCEPT ![c] = "done"]
                /\ callResult' = [callResult EXCEPT ![c] = <<>>]
                /\ UNCHANGED ss
         [] OTHER ->
                /\ callPc' = [callPc EXCEPT ![c] = "querying"]
                /\ ss' = [ss EXCEPT !.executing_search = k]
                /\ UNCHANGED callResult
    /\ UNCHANGED <<now, obsVars, uiVars>>

\* lines 293-347: the inventory query returns or raises
SearchLeave(c, inv) ==
    /\ callPc[c] = "querying"
    /\ callPc' = [callPc EXCEPT ![c] = "done"]
    /\ callResult' = [callResult EXCEPT ![c] = search_body_result(callKey[c], inv)]
    /\ ss' = [ss EXCEPT
                !.station_results = search_body_cache(ss.station_results, callKey[c], inv),
                !.executing_search = search_finally(ss.executing_search, callKey[c])]
    /\ UNCHANGED <<callKey, callDupOf, now, obsVars, uiVars>>

\* the keys the direct callers of the data manager use
ConcKeys == {execution_key(1, ring, target) : ring \in Rings, target \in 1..(MaxEntries + 1)}

\* setup_session_state, StreamlinedDataManager.__init__ and GEOSeisV2.__init__;
\* an attribute the code tests with "in"/hasattr and that is absent holds the
\* matching No... value.  station_list is None or a non-empty list: <<>> is None.
InitSession ==
    [current_view                |-> "start",
     selected_earthquake         |-> NoEvent,
     selected_station            |-> NoStation,
     station_list                |-> <<>>,
     waveform_data               |-> NoKey,
     waveform_cache              |-> {},
     earthquake_cache            |-> <<>>,
     station_results             |-> <<>>,
     executing_search            |-> NoKey,
     failed_station_downloads    |-> {},
     download_failed             |-> NoKey,
     downloading_waveform        |-> FALSE,
     downloading_waveform_active |-> NoKey,
     searching_stations          |-> FALSE,
     search_executed             |-> FALSE,
     search_ring                 |-> NoKey,
     search_target_stations      |-> 0,
     last_station_key            |-> NoKey,
     display_data                |-> NoKey,
     selected_filter_option      |-> "absent",
     ms_result                   |-> NoKey,
     ms_window                   |-> <<>>,
     wave_analysis               |-> NoKey,
     wave_motion_start           |-> FALSE,
     wave_first_load             |-> "absent"]

\* Nothing searched or displayed.  The key fields hold the station key
\* and last_station_key as they were when the value beside them was read.
NoReads ==
    [sidebar_key   |-> NoKey, sidebar_last |-> NoKey, sidebar_ms |-> NoKey,
     view_key      |-> NoKey, view_last    |-> NoKey, view_ms    |-> NoKey,
     view_display  |-> NoKey, view_wave    |-> NoKey,
     searched      |-> "no",
     inventory     |-> "none",
     search_result |-> {},
     reset         |-> FALSE,
     analysis      |-> FALSE,
     ms_computed   |-> {}]

InitDm ==
    /\ ss = InitSession
    /\ now = 0
    /\ screen = "start"
    /\ reads = NoReads
    /\ unrecorded = {}
    /\ attempted = {}
    /\ chain = {}
    /\ flight = NoKey

InitConc ==
    /\ callPc = [c \in Calls |-> "idle"]
    /\ callKey = [c \in Calls |-> NoKey]
    /\ callResult = [c \in Calls |-> <<>>]
    /\ callDupOf = [c \in Calls |-> 0]

InitObs ==
    /\ stored_at = <<>>
    /\ obs = [kind |-> "none", key |-> NoKey, age |-> -1, prev |-> <<>>,
              queried |-> FALSE, answered |-> FALSE, failed |-> FALSE,
              result |-> <<>>]
    /\ calc = [fn |-> "none"]

Init == InitDm /\ InitConc /\ InitObs

NextConc ==
    \/ \E c \in Calls, k \in ConcKeys : SearchEnter(c, k)
    \/ \E c \in Calls, inv \in InventoryOutcomes : SearchLeave(c, inv)

SpecConc == Init /\ [][NextConc]_vars

\* C4: the station search for one key is never being executed by two calls at
\* the same time, whatever the interleaving and the keys of the other calls.
C4_NoConcurrentSameKey ==
    \A c, d \in Calls :
        (c # d /\ callPc[c] = "querying" /\ callPc[d] = "querying")
            => callKey[c] # callKey[d]

\* C5: a call that arrived while another call with the same key was executing
\* returns the list that the executing call produces.
C5_SecondCallerSeesFirstResult ==
    \A c \in Calls :
        (/\ callPc[c] = "done"
         /\ callDupOf[c] # 0
         /\ callPc[callDupOf[c]] = "done")
            => callResult[c] = callResult[callDupOf[c]]

(***************************************************************************)
(* The TTL cache helpers of the data manager.                              *)
(***************************************************************************)
NoData == 0

\* _check_cache: the data of a present entry younger than max_age_hours
_check_cache(cache, key) ==
    IF key \in DOMAIN cache /\ (now - cache[key][2]) < max_age_hours
    THEN cache[key][1]
    ELSE NoData

\* _clean_cache: above max_entries, the newest max_entries entries survive.
\* Entries with equal timestamps are kept in dictionary order, which the model
\* does not track: every choice among equally old entries is possible.
_clean_cache(cache) ==
    IF Cardinality(DOMAIN cache) > MaxEntries
    THEN {[x \in keep |-> cache[x]] :
            keep \in {K \in SUBSET DOMAIN cache :
                        /\ Cardinality(K) = MaxEntries
                        /\ \A x \in K, y \in DOMAIN cache \ K : cache[x][2] >= cache[y][2]}}
    ELSE {cache}

\* _update_cache: store <<data, now>>, then clean
_update_cache(cache, key, data) ==
    _clean_cache([x \in DOMAIN cache \cup {key} |-> IF x = key THEN <<data, now>> ELSE cache[x]])

\* client.get_events: raises (-1), or returns a catalog of 0..MaxHits events
CatalogOutcomes == (-1)..MaxHits

EntryAge(times, key) == IF key \in DOMAIN times THEN now - times[key] ELSE -1

(***************************************************************************)
(* SpecCache: the data-manager API called directly, one call at a time.    *)
(***************************************************************************)
\* fetch_latest_earthquakes with a year_range (the key is the parameter tuple)
fetch_latest_earthquakes(key, out) ==
    LET cached == _check_cache(ss.earthquake_cache, key)
        hit    == cached # NoData
        found  == IF out < 0 THEN 0 ELSE out
    IN  /\ IF ~hit /\ found > 0
           THEN \E c \in _update_cache(ss.earthquake_cache, key, found) :
                    ss' = [ss EXCEPT !.earthquake_cache = c]
           ELSE UNCHANGED ss
        /\ obs' = [kind     |-> "eq",
                   key      |-> <<key>>,
                   age      |-> EntryAge([x \in DOMAIN ss.earthquake_cache |-> ss.earthquake_cache[x][2]], key),
                   prev     |-> IF key \in DOMAIN ss.earthquake_cache
                                THEN <<ss.earthquake_cache[key][1]>> ELSE <<>>,
                   queried  |-> ~hit,
                   answered |-> ~hit /\ found > 0,
                   failed   |-> ~hit /\ out < 0,
                   result   |-> IF hit THEN <<cached>>
                                ELSE IF found > 0 THEN <<found>> ELSE <<>>]
        /\ UNCHANGED <<now, stored_at, calc, concVars, uiVars>>

\* search_stations, run to completion
SearchStationsCall(k, inv) ==
    LET guard == search_guard(ss.station_results, ss.executing_search, k)
    IN  /\ ss' = [ss EXCEPT
                    !.station_results = search_stations_cache(ss.station_results, ss.executing_search, k, inv),
                    !.executing_search = search_stations_flag(ss.station_results, ss.executing_search, k)]
        /\ stored_at' = [x \in DOMAIN ss'.station_results |->
                            IF x \in DOMAIN ss.station_results THEN stored_at[x] ELSE now]
        /\ obs' = [kind     |-> "sta",
                   key      |-> k,
                   age      |-> EntryAge(stored_at, k),
                   prev     |-> IF k \in DOMAIN ss.station_results THEN ss.station_results[k] ELSE <<>>,
                   queried  |-> guard = "execute",
                   answered |-> guard = "execute" /\ k \in DOMAIN ss'.station_results,
                   failed   |-> guard = "execute" /\ inv = "error",
                   result   |-> search_stations_result(ss.station_results, ss.executing_search, k, inv)]
        /\ UNCHANGED <<now, calc, concVars, uiVars>>

Tick ==
    /\ now < MaxNow
    /\ now' = now + TickHours
    /\ UNCHANGED <<ss, concVars, obsVars, uiVars>>

NextCache ==
    \/ \E key \in EqKeys, out \in CatalogOutcomes : fetch_latest_earthquakes(key, out)
    \/ \E k \in ConcKeys, inv \in InventoryOutcomes : SearchStationsCall(k, inv)
    \/ Tick

SpecCache == Init /\ [][NextCache]_vars

\* the timestamp of the entry of the observed key after the call (-1: none)
ObservedStamp ==
    IF obs.kind = "eq"
    THEN (IF obs.key[1] \in DOMAIN ss.earthquake_cache
          THEN ss.earthquake_cache[obs.key[1]][2] ELSE -1)
    ELSE (IF obs.key \in DOMAIN stored_at THEN stored_at[obs.key] ELSE -1)

\* C6: for the event cache and the station cache, a search whose key has an
\* entry younger than 24 h returns the stored result without querying the
\* remote service, and a search whose entry is 24 h old or older queries again
\* and (when the service answers with data) replaces the entry.
C6_CacheTTL ==
    obs.kind \in {"eq", "sta"} =>
        /\ (obs.age >= 0 /\ obs.age < max_age_hours)
              => (~obs.queried /\ obs.result = obs.prev)
        /\ obs.age >= max_age_hours
              => (obs.queried /\ (obs.answered => ObservedStamp = now))

\* C7: no session cache ever holds more entries than the cap.
C7_CachesBounded ==
    /\ Cardinality(DOMAIN ss.earthquake_cache) <= MaxEntries
    /\ Cardinality(DOMAIN ss.station_results) <= MaxEntries
    /\ Cardinality(ss.waveform_cache) <= MaxEntries

(***************************************************************************)
(* Spec: the Streamlit application.  One action is one script run:         *)
(* GEOSeisV2.run renders the sidebar and then the view current_view names. *)
(* The widget clicked on the page the previous run left is handled where   *)
(* the run renders that widget again; st.rerun() ends the run and the next *)
(* run starts before the user can click anything.                          *)
(*                                                                         *)
(* An operator named after a method takes the session state s and returns  *)
(* the session state the method leaves.  A waveform, and every value        *)
(* derived from one, is represented by the <<event, station>> key of the   *)
(* download it came from.                                                  *)
(***************************************************************************)
\* handle_failed_station_download's defaults for absent search parameters
DefaultRing   == <<1500, 3000>>
DefaultTarget == 3

DownloadOutcomes == {"data", "none"}
FilterOptions    == {"raw", "surface"}

search_ring(s)   == IF s.search_ring = NoKey THEN DefaultRing ELSE s.search_ring
search_target(s) == IF s.search_target_stations = 0 THEN DefaultTarget
                    ELSE s.search_target_stations

\* search_stations called from a script run: nothing interleaves with it
ui_search_result(s, k, inv) ==
    search_stations_result(s.station_results, s.executing_search, k, inv)

ui_search_state(s, k, inv) ==
    [s EXCEPT
        !.station_results  = search_stations_cache(s.station_results, s.executing_search, k, inv),
        !.executing_search = search_stations_flag(s.station_results, s.executing_search, k)]

ui_search_inventory(s, k, inv) ==
    IF search_guard(s.station_results, s.executing_search, k) = "execute" THEN inv ELSE "none"

\* the stations of a list that are not in the failed set, in the list's order
Without(seq, failed) ==
    LET available(station) == station \notin failed
    IN  SelectSeq(seq, available)

\* search_stations_excluding_failed: search 2 * target, drop the failed
\* stations from that list, return the first target of what is left
excluding_failed_key(s, e) == execution_key(e, search_ring(s), search_target(s) * 2)

search_stations_excluding_failed(s, e, inv) ==
    LET all_stations == ui_search_result(s, excluding_failed_key(s, e), inv)
    IN  IF all_stations = <<>> THEN <<>>
        ELSE Take(Without(all_stations, s.failed_station_downloads), search_target(s))

\* a handle_failed_station_download that keeps only the latest failure
handle_failed_forgetting(s, failed_station, e, inv) ==
    LET marked == [s EXCEPT !.failed_station_downloads = {failed_station}]
    IN  ui_search_state(marked, excluding_failed_key(marked, e), inv)

\* handle_failed_station_download: the session state after the call ...
handle_failed_station_download(s, failed_station, e, inv) ==
    LET marked == [s EXCEPT !.failed_station_downloads = @ \cup {failed_station}]
    IN  ui_search_state(marked, excluding_failed_key(marked, e), inv)

\* ... and the list it returns
handle_failed_new_stations(s, failed_station, e, inv) ==
    LET marked == [s EXCEPT !.failed_station_downloads = @ \cup {failed_station}]
    IN  search_stations_excluding_failed(marked, e, inv)

\* download_waveform_data: a failure leaves its cache key in download_failed
download_waveform_data(s, e, station, dl) ==
    IF dl = "data" THEN s ELSE [s EXCEPT !.download_failed = <<e, station>>]

get_current_station_key(s) ==
    IF s.selected_station = NoStation \/ s.selected_earthquake = NoEvent
    THEN NoKey
    ELSE <<s.selected_earthquake, s.selected_station>>

\* del st.session_state[key] for key in filter_keys
delete_filter_keys(s) ==
    [s EXCEPT !.display_data = NoKey, !.selected_filter_option = "absent",
              !.ms_result = NoKey, !.wave_analysis = NoKey,
              !.wave_first_load = "absent"]

detect_station_change_and_reset(s) ==
    LET current_key == get_current_station_key(s)
    IN  IF current_key # s.last_station_key /\ current_key # NoKey
        THEN [delete_filter_keys(s) EXCEPT !.last_station_key = current_key]
        ELSE s

\* station['rayleigh_arrival'] in seconds: distance_km / 3.5
RayleighArrival(e, station) == (DistanceKm(e, station) * 10) \div 35

\* the arguments of the automatic Ms calculation:
\* <<reference_period, window_start, window_duration, apply_filter>>
AutoMsParams(e, station) == <<20, RayleighArrival(e, station), 600, TRUE>>

\* what the user can set in the Ms controls before "Opdater Ms"
UserMsParams == {<<18, 0, 300, FALSE>>, <<20, 0, 600, TRUE>>}

\* _calculate_ms_magnitude stores the magnitude of the waveform it is given,
\* with the window and filter it was calculated with
_calculate_ms_magnitude(s, waveform_data, params) ==
    [s EXCEPT !.ms_result = waveform_data, !.ms_window = params]

\* st.session_state.get('display_data', waveform_data)
display_or_waveform(s) == IF s.display_data # NoKey THEN s.display_data ELSE s.waveform_data

\* what a script run hands back: the session state, the page it left and
\* what it read; none is the station whose download returned None
Out(s, scr, rd) == [ss |-> s, screen |-> scr, reads |-> rd, none |-> NoStation]

(***************************************************************************)
(* render_sidebar: a navigation button sets current_view, then the status  *)
(* panel shows Ms when a waveform is loaded.                               *)
(***************************************************************************)
NavViews == {"start", "data_search", "analysis_stations", "unified_analysis", "tools_export"}

\* the disabled= argument of each navigation button
nav_enabled(s, view) ==
    CASE view = "analysis_stations" -> s.selected_earthquake # NoEvent
      [] view = "unified_analysis"  -> s.selected_station # NoStation
      [] view = "tools_export"      -> s.waveform_data # NoKey
      [] OTHER                      -> TRUE

render_sidebar(s, click, arg) ==
    IF click = "nav" THEN [s EXCEPT !.current_view = arg] ELSE s

sidebar_reads(s, rd) ==
    [rd EXCEPT !.sidebar_key  = get_current_station_key(s),
               !.sidebar_last = s.last_station_key,
               !.sidebar_ms   = IF s.waveform_data # NoKey THEN s.ms_result ELSE NoKey]

\* the "Tilbage" button of render_breadcrumb_with_title
render_breadcrumb_back(s) ==
    [s EXCEPT !.current_view =
        CASE @ = "unified_analysis"  -> "analysis_stations"
          [] @ = "analysis_stations" -> "data_search"
          [] @ = "tools_export"      -> "unified_analysis"
          [] OTHER                   -> "start"]

(***************************************************************************)
(* Start page and earthquake search: both list the events, and selecting   *)
(* one resets the station data and goes to the station view.               *)
(***************************************************************************)
select_earthquake(s, e) ==
    [s EXCEPT !.selected_earthquake = e,
              !.current_view        = "analysis_stations",
              !.station_list        = <<>>,
              !.selected_station    = NoStation,
              !.waveform_data       = NoKey]

render_start_view(s, rd, click, arg) ==
    IF click = "select_earthquake"
    THEN Out(select_earthquake(s, arg), "rerun", rd)
    ELSE Out(s, "start", rd)

render_data_search_view(s, rd, click, arg) ==
    IF click = "select_earthquake"
    THEN Out(select_earthquake(s, arg), "rerun", rd)
    ELSE Out(s, "data_search", rd)

(***************************************************************************)
(* render_analysis_stations_view                                           *)
(***************************************************************************)
_render_search_layout(s, rd, search_in_progress, click, arg) ==
    IF search_in_progress THEN Out(s, "stations_busy", rd)
    ELSE IF click = "search"
    THEN Out([s EXCEPT !.search_ring            = arg[1],
                       !.search_target_stations = arg[2],
                       !.searching_stations     = TRUE,
                       !.search_executed        = FALSE], "rerun", rd)
    ELSE Out(s, "stations_form", rd)

\* a "Vis seismogram" that leaves the waveform on display when the cache
\* misses
show_seismogram_keeping(s, station) ==
    LET cache_key == <<s.selected_earthquake, station>>
    IN  IF cache_key \in s.waveform_cache
        THEN [s EXCEPT !.selected_station = station,
                       !.waveform_data    = cache_key,
                       !.current_view     = "unified_analysis"]
        ELSE [s EXCEPT !.selected_station     = station,
                       !.downloading_waveform = TRUE,
                       !.current_view         = "unified_analysis"]

\* "Vis seismogram" and a click on a station of the map
show_seismogram(s, station) ==
    LET cache_key == <<s.selected_earthquake, station>>
    IN  IF cache_key \in s.waveform_cache
        THEN [s EXCEPT !.selected_station = station,
                       !.waveform_data    = cache_key,
                       !.current_view     = "unified_analysis"]
        ELSE [s EXCEPT !.selected_station     = station,
                       !.downloading_waveform = TRUE,
                       !.waveform_data        = NoKey,
                       !.current_view         = "unified_analysis"]

\* "Søg nye stationer"
search_new_stations(s) ==
    [delete_filter_keys(s) EXCEPT
        !.station_list       = <<>>,
        !.selected_station   = NoStation,
        !.waveform_data      = NoKey,
        !.searching_stations = FALSE,
        !.search_executed    = FALSE,
        !.last_station_key   = NoKey]

_render_stations_layout(s, rd, click, arg) ==
    IF click = "show_seismogram" /\ arg \in 1..Len(s.station_list)
    THEN Out(show_seismogram(s, s.station_list[arg]), "rerun", rd)
    ELSE IF click = "search_new_stations"
    THEN Out(search_new_stations(s), "rerun", rd)
    ELSE Out(s, "stations_list", rd)

\* a search step that clears its flags only when it found stations
station_search_found_only(s, k, stations, inv) ==
    IF stations # <<>>
    THEN [ui_search_state(s, k, inv) EXCEPT
            !.station_list       = stations,
            !.searching_stations = FALSE,
            !.search_executed    = FALSE]
    ELSE [ui_search_state(s, k, inv) EXCEPT !.search_executed = TRUE]

\* lines 2107-2149: the search is executed; the session state it leaves ...
station_search_state(s, k, stations, inv) ==
    [ui_search_state(s, k, inv) EXCEPT
        !.station_list       = IF stations # <<>> THEN stations ELSE @,
        !.searching_stations = FALSE,
        !.search_executed    = FALSE]

\* ... and what it was answered
station_search_reads(s, rd, k, stations, inv) ==
    [rd EXCEPT !.searched      = "search_stations",
               !.inventory     = ui_search_inventory(s, k, inv),
               !.search_result = SeqRange(stations)]

\* the layout was chosen before the search ran: the form shows its spinner
execute_station_search(s, rd, k, click, arg, inv) ==
    _render_search_layout(station_search_state(s, k, ui_search_result(s, k, inv), inv),
                          station_search_reads(s, rd, k, ui_search_result(s, k, inv), inv),
                          s.searching_stations, click, arg)

render_analysis_stations_view(s, rd, click, arg, inv) ==
    IF click = "back" THEN Out(render_breadcrumb_back(s), "rerun", rd)
    ELSE IF s.selected_earthquake = NoEvent THEN Out(s, "stations_no_event", rd)
    ELSE IF s.station_list # <<>> THEN _render_stations_layout(s, rd, click, arg)
    ELSE IF s.searching_stations /\ ~s.search_executed
    THEN execute_station_search(
            s, rd, execution_key(s.selected_earthquake, search_ring(s), search_target(s)),
            click, arg, inv)
    ELSE _render_search_layout(s, rd, s.searching_stations, click, arg)

(***************************************************************************)
(* render_unified_analysis_view                                            *)
(***************************************************************************)
\* "Anvend filter"
apply_filter(s, selected_filter) ==
    IF selected_filter = "raw"
    THEN [s EXCEPT !.display_data = NoKey, !.selected_filter_option = "absent"]
    ELSE [s EXCEPT !.selected_filter_option = selected_filter,
                   !.display_data           = s.waveform_data]

\* _render_enhanced_wave_analysis: the analysis that runs on first load
init_wave_state(s) ==
    IF s.wave_motion_start THEN s
    ELSE [s EXCEPT !.wave_motion_start = TRUE, !.wave_first_load = "true"]

first_load_analysis(s) ==
    IF s.wave_first_load = "true"
    THEN [s EXCEPT !.wave_analysis   = display_or_waveform(s),
                   !.wave_first_load = "false"]
    ELSE s

wave_first_load(s) == first_load_analysis(init_wave_state(s))

\* lines 2665-2924: reset on station change, automatic Ms, then the tabs
\* lines 2675-2690: Ms is calculated when the session holds none
auto_ms_always(s) ==
    _calculate_ms_magnitude(s, s.waveform_data,
                            AutoMsParams(s.selected_earthquake, s.selected_station))

auto_ms(s) ==
    IF s.ms_result = NoKey
    THEN _calculate_ms_magnitude(s, s.waveform_data,
                                 AutoMsParams(s.selected_earthquake, s.selected_station))
    ELSE s

\* the render notes whether the automatic calculation ran
auto_ms_reads(s, rd) ==
    [rd EXCEPT !.analysis    = TRUE,
               !.ms_computed = IF s.ms_result = NoKey THEN {"auto"} ELSE {}]

\* what the plot (display_data) and the Ms panel (ms_result) show
plot_reads(s, rd) ==
    [rd EXCEPT !.view_key     = get_current_station_key(s),
               !.view_last    = s.last_station_key,
               !.view_display = s.display_data]

ms_reads(s, rd) == [plot_reads(s, rd) EXCEPT !.view_ms = s.ms_result]

\* the wave-analysis tab shows wave_analysis
wave_tab(s, rd) == Out(s, "analysis_loaded", [rd EXCEPT !.view_wave = s.wave_analysis])

\* lines 2728-2924: filter, Ms and wave-analysis controls, in page order
analysis_tabs(s, rd, click, arg) ==
    IF click = "apply_filter"
    THEN Out(apply_filter(s, arg), "rerun", plot_reads(s, rd))
    ELSE IF click = "update_ms"
    THEN Out(_calculate_ms_magnitude(s, s.waveform_data, arg), "rerun",
             [ms_reads(s, rd) EXCEPT !.ms_computed = @ \cup {"user"}])
    ELSE IF click = "update_wave"
    THEN Out([s EXCEPT !.wave_motion_start = TRUE,
                       !.wave_first_load   = IF s.wave_motion_start THEN @ ELSE "true",
                       !.wave_analysis     = display_or_waveform(s)],
             "rerun", ms_reads(s, rd))
    ELSE wave_tab(wave_first_load(s), ms_reads(s, rd))

analysis_after_reset(s, rd, click, arg) ==
    analysis_tabs(auto_ms(s), auto_ms_reads(s, rd), click, arg)

analysis_interface(s, rd, click, arg) ==
    analysis_after_reset(detect_station_change_and_reset(s), rd, click, arg)

\* lines 2561-2605: the download of the selected station failed
fallback_reads(s, rd, new_stations, inv) ==
    [rd EXCEPT !.searched      = "excluding_failed",
               !.inventory     = ui_search_inventory(
                                    s, excluding_failed_key(s, s.selected_earthquake), inv),
               !.search_result = SeqRange(new_stations)]

\* lines 2571-2605: the next station is tried, or the error and its buttons
fallback_outcome(handled, rd, new_stations, click) ==
    IF new_stations # <<>>
    THEN Out([handled EXCEPT !.station_list         = new_stations,
                             !.selected_station     = new_stations[1],
                             !.download_failed      = NoKey,
                             !.downloading_waveform = TRUE], "rerun", rd)
    ELSE IF click = "search_other_stations"
    THEN Out([handled EXCEPT !.failed_station_downloads = {},
                             !.current_view             = "analysis_stations",
                             !.selected_station         = NoStation],
             "rerun", [rd EXCEPT !.reset = TRUE])
    ELSE IF click = "choose_other_earthquake"
    THEN Out([handled EXCEPT !.current_view = "data_search"], "rerun", rd)
    ELSE Out(handled, "analysis_terminal", rd)

fallback_search(s, rd, new_stations, click, inv) ==
    fallback_outcome(
        handle_failed_station_download(s, s.selected_station, s.selected_earthquake, inv),
        fallback_reads(s, rd, new_stations, inv), new_stations, click)

auto_fallback(s, rd, click, inv) ==
    fallback_search(
        s, rd, handle_failed_new_stations(s, s.selected_station, s.selected_earthquake, inv),
        click, inv)

\* lines 2616-2659: the guarded download
start_download(s, rd, dl) ==
    LET e         == s.selected_earthquake
        station   == s.selected_station
        cache_key == <<e, station>>
        guarded   == [s EXCEPT !.downloading_waveform_active = cache_key,
                               !.downloading_waveform        = FALSE]
        called    == download_waveform_data(guarded, e, station, dl)
    IN  IF dl = "data"
        THEN Out([called EXCEPT !.waveform_cache              = @ \cup {cache_key},
                                !.waveform_data               = cache_key,
                                !.downloading_waveform        = FALSE,
                                !.downloading_waveform_active = NoKey], "rerun", rd)
        ELSE [Out([called EXCEPT !.downloading_waveform_active = NoKey],
                  "analysis_wait", rd) EXCEPT !.none = station]

render_unified_analysis_view(s, rd, click, arg, inv, dl) ==
    LET cache_key == <<s.selected_earthquake, s.selected_station>>
    IN  IF click = "back" THEN Out(render_breadcrumb_back(s), "rerun", rd)
        ELSE IF s.selected_station = NoStation THEN Out(s, "analysis_no_station", rd)
        ELSE IF s.waveform_data # NoKey THEN analysis_interface(s, rd, click, arg)
        ELSE IF cache_key \in s.waveform_cache
        THEN analysis_interface([s EXCEPT !.waveform_data = cache_key], rd, click, arg)
        ELSE IF s.download_failed = cache_key THEN auto_fallback(s, rd, click, inv)
        ELSE IF s.downloading_waveform_active = cache_key THEN Out(s, "analysis_wait", rd)
        ELSE IF s.downloading_waveform THEN start_download(s, rd, dl)
        ELSE Out(s, "analysis_wait", rd)

(***************************************************************************)
(* render_data_export_view: the export hands ms_result to the exporter.    *)
(***************************************************************************)
render_data_export_view(s, rd, click) ==
    IF click = "back" THEN Out(render_breadcrumb_back(s), "rerun", rd)
    ELSE IF click = "export"
    THEN Out(s, "export", [rd EXCEPT !.view_key  = get_current_station_key(s),
                                     !.view_last = s.last_station_key,
                                     !.view_ms   = s.ms_result])
    ELSE Out(s, "export", rd)

(***************************************************************************)
(* GEOSeisV2.run: one script run.  click names the widget the user clicked *)
(* (with its argument), inv and dl are what the FDSN service answers if    *)
(* this run queries the inventory or downloads a waveform.                 *)
(***************************************************************************)
\* lines 5140-5150: the view current_view names, the start page otherwise
render_current_view(s, rd, click, arg, inv, dl) ==
    CASE s.current_view = "data_search" ->
            render_data_search_view(s, rd, click, arg)
      [] s.current_view = "analysis_stations" ->
            render_analysis_stations_view(s, rd, click, arg, inv)
      [] s.current_view = "unified_analysis" ->
            render_unified_analysis_view(s, rd, click, arg, inv, dl)
      [] s.current_view = "tools_export" ->
            render_data_export_view(s, rd, click)
      [] OTHER ->
            render_start_view(s, rd, click, arg)

after_sidebar(s, click, arg, inv, dl) ==
    render_current_view(s, sidebar_reads(s, NoReads), click, arg, inv, dl)

run(s, click, arg, inv, dl) ==
    after_sidebar(render_sidebar(s, click, arg), click, arg, inv, dl)

\* the station a run selected: "Vis seismogram" selects the station it is
\* clicked for, the fallback the station it tries next
selected_by(before, after, click) ==
    IF after.selected_station # NoStation
       /\ (click = "show_seismogram" \/ after.selected_station # before.selected_station)
    THEN {after.selected_station}
    ELSE {}

\* the station a run attempted a download for: only the guarded download
\* (lines 2616-2619) clears downloading_waveform
downloaded_by(before, after) ==
    IF before.downloading_waveform /\ ~after.downloading_waveform
    THEN {before.selected_station}
    ELSE {}

Run(click, arg) ==
    \E inv \in InventoryOutcomes, dl \in DownloadOutcomes :
        \E out \in {run(ss, click, arg, inv, dl)} :
            /\ ss' = out.ss
            /\ screen' = out.screen
            /\ reads' = out.reads
            /\ unrecorded' =
                    IF out.reads.reset THEN {}
                    ELSE (unrecorded \cup ({out.none} \ {NoStation}))
                            \ out.ss.failed_station_downloads
            /\ attempted' = (attempted \ selected_by(ss, out.ss, click))
                                \cup ({out.none} \ {NoStation})
            /\ chain' = IF click = "show_seismogram" THEN {}
                         ELSE chain \cup downloaded_by(ss, out.ss)
            /\ UNCHANGED <<now, concVars, obsVars, flight>>

\* the pages that carry the breadcrumb with its "Tilbage" button
BreadcrumbScreens ==
    {"stations_form", "stations_busy", "stations_list",
     "analysis_terminal", "analysis_wait", "analysis_loaded", "export"}

\* st.rerun() was called: the next run starts with no widget clicked
Rerun == screen = "rerun" /\ Run("none", 0)

\* a sidebar button; the button of the current view re-runs the script
SidebarNav(view) ==
    /\ screen # "rerun"
    /\ nav_enabled(ss, view)
    /\ Run("nav", view)

BreadcrumbBack == screen \in BreadcrumbScreens /\ Run("back", 0)

SelectEarthquake(e) == screen \in {"start", "data_search"} /\ Run("select_earthquake", e)

SearchClick(ring, target) == screen = "stations_form" /\ Run("search", <<ring, target>>)

ShowSeismogram(i) ==
    /\ screen = "stations_list"
    /\ i \in 1..Len(ss.station_list)
    /\ Run("show_seismogram", i)

SearchNewStations == screen = "stations_list" /\ Run("search_new_stations", 0)

SearchOtherStations == screen = "analysis_terminal" /\ Run("search_other_stations", 0)

ChooseOtherEarthquake == screen = "analysis_terminal" /\ Run("choose_other_earthquake", 0)

ApplyFilter(f) == screen = "analysis_loaded" /\ Run("apply_filter", f)

UpdateMs(params) == screen = "analysis_loaded" /\ Run("update_ms", params)

UpdateWaveAnalysis == screen = "analysis_loaded" /\ Run("update_wave", 0)

ExportData == screen = "export" /\ Run("export", 0)

Next ==
    \/ Rerun
    \/ \E view \in NavViews : SidebarNav(view)
    \/ BreadcrumbBack
    \/ \E e \in Events : SelectEarthquake(e)
    \/ \E ring \in Rings, target \in Targets : SearchClick(ring, target)
    \/ \E i \in 1..(2 * MaxTarget) : ShowSeismogram(i)
    \/ SearchNewStations
    \/ SearchOtherStations
    \/ ChooseOtherEarthquake
    \/ \E f \in FilterOptions : ApplyFilter(f)
    \/ \E params \in UserMsParams : UpdateMs(params)
    \/ UpdateWaveAnalysis
    \/ ExportData

Spec == Init /\ [][Next]_vars

(***************************************************************************)
(* Properties of the application.                                          *)
(***************************************************************************)
\* C1: a station whose download returned None is in the failed set by the
\* time search_stations_excluding_failed is called next, so that call's
\* result leaves it out.
C1_FailedDownloadRecorded ==
    reads.searched = "excluding_failed" =>
        /\ unrecorded = {}
        /\ reads.search_result \cap unrecorded = {}

\* the in-ring stations of the selected event that are not marked failed,
\* best first
RemainingStations ==
    Without(SelectedStations[execution_key(ss.selected_earthquake, search_ring(ss), NumStations)],
            ss.failed_station_downloads)

\* C2: the automatic fallback selects the best non-failed station of the
\* ring, and shows the terminal error only when the ring holds no non-failed
\* station (runs whose inventory query failed are left aside).
C2_FallbackSelectsBestRemaining ==
    (reads.searched = "excluding_failed" /\ reads.inventory # "error" /\ ~reads.reset) =>
        /\ screen = "rerun" =>
                (ss.current_view = "unified_analysis" =>
                    /\ RemainingStations # <<>>
                    /\ ss.selected_station = Head(RemainingStations))
        /\ screen = "analysis_terminal" => RemainingStations = <<>>

\* C3: no search, user-triggered or automatic, returns a station that is in
\* the failed set.
C3_SearchResultsExcludeFailed ==
    reads.searched # "no" => reads.search_result \cap ss.failed_station_downloads = {}

\* C8: a step either keeps every member of the failed set or is the explicit
\* reset ("Søg andre stationer").
C8_FailedSetOnlyGrows ==
    [][ss.failed_station_downloads \subseteq ss'.failed_station_downloads
        \/ reads'.reset]_vars

\* two downloads have failed and both are in the set
C8_Witness == Cardinality(ss.failed_station_downloads) >= 2

\* C9: wherever a run reads derived data while the selected key differs from
\* last_station_key, the derived data has been evicted.
C9_DerivedDataEvictedBeforeRead ==
    /\ (reads.sidebar_key # NoKey /\ reads.sidebar_key # reads.sidebar_last)
            => reads.sidebar_ms = NoKey
    /\ (reads.view_key # NoKey /\ reads.view_key # reads.view_last)
            => (reads.view_ms = NoKey /\ reads.view_display = NoKey /\ reads.view_wave = NoKey)

\* C10: a step that selects another event leaves no waveform, no selected
\* station and no display_data.
C10_EventSelectionClears ==
    [][ss'.selected_earthquake # ss.selected_earthquake =>
            /\ ss'.waveform_data = NoKey
            /\ ss'.selected_station = NoStation
            /\ ss'.display_data = NoKey]_vars

(***************************************************************************)
(* SpecFlight: the guarded download of render_unified_analysis_view, split *)
(* at the FDSN request.  The guard downloading_waveform_active exists for  *)
(* script runs that render while a download is waiting; here they do.      *)
(***************************************************************************)
\* lines 2544-2623: the conditions under which a run starts the download
download_due(s) ==
    /\ s.current_view = "unified_analysis"
    /\ s.selected_station # NoStation
    /\ s.waveform_data = NoKey
    /\ get_current_station_key(s) \notin s.waveform_cache
    /\ s.download_failed # get_current_station_key(s)
    /\ s.downloading_waveform_active # get_current_station_key(s)
    /\ s.downloading_waveform

\* lines 2622-2623: the execution guard is set
begin_download(s) ==
    [s EXCEPT !.downloading_waveform_active = get_current_station_key(s),
              !.downloading_waveform        = FALSE]

\* lines 2632-2636: the answer is cached under the key of the request and
\* installed as waveform_data
install_waveform(s, cache_key, dl) ==
    IF dl = "data"
    THEN [s EXCEPT !.waveform_cache       = @ \cup {cache_key},
                   !.waveform_data        = cache_key,
                   !.downloading_waveform = FALSE]
    ELSE s

\* lines 2648-2652: finally
release_download(s, cache_key) ==
    IF s.downloading_waveform_active = cache_key
    THEN [s EXCEPT !.downloading_waveform_active = NoKey]
    ELSE s

\* lines 2629-2657: download_waveform_data returns to the run that called it
finish_download(s, cache_key, dl) ==
    release_download(
        install_waveform(download_waveform_data(s, cache_key[1], cache_key[2], dl),
                         cache_key, dl),
        cache_key)

\* a run reaches the download and waits for the service
DownloadBegin ==
    /\ screen = "rerun"
    /\ flight = NoKey
    /\ download_due(ss)
    /\ ss' = begin_download(ss)
    /\ flight' = get_current_station_key(ss)
    /\ screen' = "analysis_wait"
    /\ reads' = sidebar_reads(ss, NoReads)
    /\ chain' = chain \cup {ss.selected_station}
    /\ UNCHANGED <<now, concVars, obsVars, unrecorded, attempted>>

\* the service answers; the run goes on after the call and ends
DownloadArrive(dl) ==
    /\ flight # NoKey
    /\ ss' = finish_download(ss, flight, dl)
    /\ flight' = NoKey
    /\ screen' = IF ss'.waveform_data # NoKey THEN "rerun" ELSE screen
    /\ unrecorded' = IF dl = "none" /\ flight[2] \notin ss.failed_station_downloads
                     THEN unrecorded \cup {flight[2]} ELSE unrecorded
    /\ attempted' = IF dl = "none" THEN attempted \cup {flight[2]} ELSE attempted
    /\ UNCHANGED chain
    /\ UNCHANGED <<now, concVars, obsVars, reads>>

NextFlight ==
    \/ Rerun
    \/ \E view \in NavViews : SidebarNav(view)
    \/ BreadcrumbBack
    \/ \E e \in Events : SelectEarthquake(e)
    \/ \E ring \in Rings, target \in Targets : SearchClick(ring, target)
    \/ \E i \in 1..(2 * MaxTarget) : ShowSeismogram(i)
    \/ DownloadBegin
    \/ \E dl \in DownloadOutcomes : DownloadArrive(dl)

SpecFlight == Init /\ [][NextFlight]_vars

C11_AutomaticFirstMs ==
    /\ []((reads.analysis /\ reads.ms_computed = {"auto"}) =>
            /\ ss.ms_result = reads.view_key
            /\ ss.ms_window = AutoMsParams(reads.view_key[1], reads.view_key[2]))
    /\ [][reads'.analysis =>
            IF ss.last_station_key # reads'.view_key
            THEN "auto" \in reads'.ms_computed
            ELSE /\ "auto" \notin reads'.ms_computed
                 /\ "user" \notin reads'.ms_computed =>
                        (ss'.ms_result = ss.ms_result /\ ss'.ms_window = ss.ms_window)]_vars

\* the analysis page of a key whose Ms was just calculated automatically
C11_Witness ==
    /\ screen = "analysis_loaded"
    /\ reads.ms_computed = {"auto"}
    /\ ss.ms_result = <<1, 2>>

(***************************************************************************)
(* SpecNum: calculate_ms_magnitude called directly.  calc holds the latest *)
(* call: the routine, its arguments and what it returned.                  *)
(*                                                                         *)
(* Magnitudes and corrections are integers in units of 1e-5; a returned Ms *)
(* is in tenths.  log10 is computed in fixed point, to within 1e-4.        *)
(***************************************************************************)
LogScale == 16384   \* 2^LogBits
LogBits  == 14

RECURSIVE FloorLog2(_)
FloorLog2(n) == IF n < 2 THEN 0 ELSE 1 + FloorLog2(n \div 2)

RECURSIVE Pow2(_)
Pow2(k) == IF k = 0 THEN 1 ELSE 2 * Pow2(k - 1)

\* n / 2^FloorLog2(n), a number in [1, 2), times LogScale
Mantissa(n) ==
    IF FloorLog2(n) >= LogBits
    THEN n \div Pow2(FloorLog2(n) - LogBits)
    ELSE n * Pow2(LogBits - FloorLog2(n))

\* the binary digits of log2 of a mantissa, by repeated squaring
RECURSIVE FracBits(_, _, _)
FracBits(m, i, acc) ==
    IF i = 0 THEN acc
    ELSE IF (m * m) \div LogScale >= 2 * LogScale
         THEN FracBits((m * m) \div (2 * LogScale), i - 1, 2 * acc + 1)
         ELSE FracBits((m * m) \div LogScale, i - 1, 2 * acc)

\* np.log10(n) for an integer n >= 1, in units of 1e-5 (log10(2) = 0.30103)
Log10E5(n) ==
    FloorLog2(n) * 30103 + (FracBits(Mantissa(n), LogBits, 0) * 30103) \div LogScale

\* round(x, 1) of x in units of 1e-5, in tenths (ties to even)
RoundTenth(x) ==
    IF x % 10000 > 5000 THEN x \div 10000 + 1
    ELSE IF x % 10000 < 5000 THEN x \div 10000
    ELSE IF (x \div 10000) % 2 = 0 THEN x \div 10000
    ELSE x \div 10000 + 1

\* lines 632-640: log10(A/T) + 1.66 * log10(distance_km / 111.195) + 3.3
ms_raw_no_distance(amplitude_um, period, distance_km) ==
    Log10E5(amplitude_um) - Log10E5(period) + 330000

ms_raw_result(amplitude_um, period, distance_km) ==
    Log10E5(amplitude_um) - Log10E5(period)
        + (166 * (Log10E5(distance_km * 1000) - Log10E5(111195))) \div 100
        + 330000

\* lines 643-646; a depth of None or 0 is falsy
ms_depth_correction_over_60(depth_km) ==
    IF depth_km # 0 /\ depth_km > 60 THEN -350 * (depth_km - 50) ELSE 0

ms_depth_correction(depth_km) ==
    IF depth_km # 0 /\ depth_km > 50 THEN -350 * (depth_km - 50) ELSE 0

\* lines 649-656: 0.3 * (2000 - distance_km) / 2000
ms_distance_correction(distance_km) ==
    IF distance_km < 2000 THEN 15 * (2000 - distance_km) ELSE 0

NoMs(reason) ==
    [ok |-> FALSE, reason |-> reason, ms |-> 0, raw |-> 0,
     depth_correction |-> 0, distance_correction |-> 0]

\* calculate_ms_magnitude.  amplitude_um is the largest of the vertical and
\* horizontal peak amplitudes of the (filtered) window; sampling_rate is in
\* tenths of a hertz, so the Nyquist test sampling_rate / 2 < 0.5 reads < 10.
calculate_ms_magnitude(amplitude_um, distance_km, sampling_rate, period, depth_km, apply_ms_filter) ==
    IF distance_km < 200 THEN NoMs("distance_too_short")
    ELSE IF apply_ms_filter /\ sampling_rate < 10 THEN NoMs("sampling_rate_too_low")
    ELSE IF amplitude_um = 0 THEN NoMs("no_amplitude")
    ELSE [ok     |-> TRUE,
          reason |-> "",
          ms     |-> RoundTenth(ms_raw_result(amplitude_um, period, distance_km)
                                    + ms_depth_correction(depth_km)
                                    + ms_distance_correction(distance_km)),
          raw    |-> ms_raw_result(amplitude_um, period, distance_km),
          depth_correction    |-> ms_depth_correction(depth_km),
          distance_correction |-> ms_distance_correction(distance_km)]

\* the arguments the routine is called with
MsAmplitudes    == {0, 50, 50000}
MsDistances     == {100, 200, 1000, 1900, 2000, 3000}
MsSamplingRates == {5, 400}
MsPeriods       == {10, 20}
MsDepths        == {0, 50, 60, 300}

CalculateMs(amplitude_um, distance_km, sampling_rate, period, depth_km, apply_ms_filter) ==
    /\ calc' = [fn  |-> "calculate_ms_magnitude",
                arg |-> [amplitude_um |-> amplitude_um, distance_km |-> distance_km,
                         sampling_rate |-> sampling_rate, period |-> period,
                         depth_km |-> depth_km, apply_ms_filter |-> apply_ms_filter],
                out |-> calculate_ms_magnitude(amplitude_um, distance_km, sampling_rate,
                                               period, depth_km, apply_ms_filter)]
    /\ UNCHANGED <<ss, now, concVars, stored_at, obs, uiVars>>

\* what section 4.3 says the corrections and the result are
MsAsSpecified ==
    /\ calc.out.ok
    /\ calc.out.depth_correction =
            (IF calc.arg.depth_km > 50 THEN -350 * (calc.arg.depth_km - 50) ELSE 0)
    /\ calc.out.distance_correction =
            (IF calc.arg.distance_km < 2000 THEN 15 * (2000 - calc.arg.distance_km) ELSE 0)
    /\ calc.out.ms = RoundTenth(calc.out.raw + calc.out.depth_correction
                                    + calc.out.distance_correction)

FartherCall ==
    /\ calc.fn = "calculate_ms_magnitude"
    /\ calc'.fn = "calculate_ms_magnitude"
    /\ calc.out.ok
    /\ calc'.out.ok
    /\ calc'.arg.amplitude_um = calc.arg.amplitude_um
    /\ calc'.arg.period = calc.arg.period
    /\ calc'.arg.depth_km = calc.arg.depth_km
    /\ calc.arg.distance_km < calc'.arg.distance_km
    /\ calc'.arg.distance_km < 2000

\* C14 as stated: with amplitude, period and depth fixed, Ms does not increase
\* with distance_km below 2000 km.
C14_MsNonIncreasingInDistance ==
    [][FartherCall => calc'.out.ms <= calc.out.ms]_vars

\* C14, amended: with amplitude, period and depth fixed, the distance
\* correction does not increase with distance_km below 2000 km, and Ms does
\* not decrease (the term 1.66 * log10(distance) grows faster than the
\* correction shrinks).
C14_MsNonDecreasingInDistance ==
    [][FartherCall =>
            /\ calc'.out.distance_correction <= calc.out.distance_correction
            /\ calc'.out.ms >= calc.out.ms]_vars

\* Ms 5.8 at 1900 km for 50 um at 20 s (5.4 at 1000 km, 4.4 at 200 km)
C14_Witness ==
    /\ calc.fn = "calculate_ms_magnitude"
    /\ calc.out.ok
    /\ calc.arg.amplitude_um = 50
    /\ calc.arg.period = 20
    /\ calc.arg.depth_km = 0
    /\ calc.arg.distance_km = 1900
    /\ calc.out.ms = 58

(***************************************************************************)
(* calculate_surface_wave_velocities.  Velocities are in units of 1e-4     *)
(* km/s while they are computed and in hundredths when returned; factors   *)
(* are in hundredths, magnitudes in tenths, arrivals in tenths of a second.*)
(***************************************************************************)
Max(a, b) == IF a >= b THEN a ELSE b
Min(a, b) == IF a <= b THEN a ELSE b

depth_factor(depth_km) ==
    IF depth_km < 20 THEN 100
    ELSE IF depth_km < 35 THEN 98
    ELSE IF depth_km < 70 THEN 92
    ELSE IF depth_km < 150 THEN 80
    ELSE IF depth_km < 300 THEN 65
    ELSE 50

distance_factor(distance_km) ==
    IF distance_km < 500 THEN 92
    ELSE IF distance_km < 1000 THEN 95
    ELSE IF distance_km < 2000 THEN 98
    ELSE IF distance_km < 4000 THEN 100
    ELSE IF distance_km < 6000 THEN 102
    ELSE IF distance_km < 10000 THEN 104
    ELSE 106

magnitude_factor(magnitude) ==
    IF magnitude < 50 THEN 95
    ELSE IF magnitude < 55 THEN 97
    ELSE IF magnitude < 60 THEN 99
    ELSE IF magnitude < 65 THEN 100
    ELSE IF magnitude < 70 THEN 102
    ELSE IF magnitude < 75 THEN 104
    ELSE IF magnitude < 80 THEN 106
    ELSE 108

\* 0 stands for an arrival time that is None; s / p is compared with
\* 1.80, 1.75 and 1.70
structure_factor(p_arrival_sec, s_arrival_sec) ==
    IF p_arrival_sec # 0 /\ s_arrival_sec # 0 /\ p_arrival_sec > 0
    THEN IF s_arrival_sec * 100 > 180 * p_arrival_sec THEN 93
         ELSE IF s_arrival_sec * 100 > 175 * p_arrival_sec THEN 97
         ELSE IF s_arrival_sec * 100 > 170 * p_arrival_sec THEN 100
         ELSE 105
    ELSE 100

\* base_rayleigh_velocity (3.5 km/s) times the four factors
Times(velocity, factor) == (velocity * factor) \div 100

raw_rayleigh_velocity(distance_km, depth_km, magnitude, p_arrival_sec, s_arrival_sec) ==
    Times(Times(Times(Times(35000, depth_factor(depth_km)),
                      distance_factor(distance_km)),
                magnitude_factor(magnitude)),
          structure_factor(p_arrival_sec, s_arrival_sec))

\* love_velocity = rayleigh_velocity * 1.12
raw_love_velocity(rayleigh_velocity) == Times(rayleigh_velocity, 112)

\* max(3.8, min(5.2, love_velocity)) and max(3.0, min(4.5, rayleigh_velocity))
limit_love_velocity(love_velocity) == Max(38000, Min(52000, love_velocity))

limit_rayleigh_no_floor(rayleigh_velocity) == Min(45000, rayleigh_velocity)

limit_rayleigh_velocity(rayleigh_velocity) == Max(30000, Min(45000, rayleigh_velocity))

\* round(x, digits) of a non-negative quotient num / den, as an integer
RoundDiv(num, den) == num \div den + (IF 2 * (num % den) >= den THEN 1 ELSE 0)

\* what the function returns for the limited velocities
surface_wave_result(distance_km, love_velocity, rayleigh_velocity) ==
    [love_velocity     |-> RoundDiv(love_velocity, 100),
     rayleigh_velocity |-> RoundDiv(rayleigh_velocity, 100),
     love_arrival      |-> RoundDiv(distance_km * 100000, love_velocity),
     rayleigh_arrival  |-> RoundDiv(distance_km * 100000, rayleigh_velocity)]

surface_waves_from(distance_km, rayleigh_velocity) ==
    surface_wave_result(distance_km,
                        limit_love_velocity(raw_love_velocity(rayleigh_velocity)),
                        limit_rayleigh_velocity(rayleigh_velocity))

calculate_surface_wave_velocities(distance_km, depth_km, magnitude, p_arrival_sec, s_arrival_sec) ==
    surface_waves_from(
        distance_km,
        raw_rayleigh_velocity(distance_km, depth_km, magnitude, p_arrival_sec, s_arrival_sec))

\* the arguments the routine is called with
SwDistances  == {300, 800, 1500, 3000, 5000, 8000, 12000}
SwDepths     == {10, 30, 50, 100, 200, 400}
SwMagnitudes == {45, 52, 57, 62, 67, 72, 77, 85}
SwArrivals   == {<<0, 0>>, <<100, 185>>, <<100, 178>>, <<100, 172>>, <<100, 160>>}

CalculateSurfaceWaveVelocities(distance_km, depth_km, magnitude, arrivals) ==
    /\ calc.fn = "none"
    /\ calc' = [fn  |-> "calculate_surface_wave_velocities",
                arg |-> [distance_km |-> distance_km, depth_km |-> depth_km,
                         magnitude |-> magnitude,
                         p_arrival_sec |-> arrivals[1], s_arrival_sec |-> arrivals[2]],
                out |-> calculate_surface_wave_velocities(
                            distance_km, depth_km, magnitude, arrivals[1], arrivals[2])]
    /\ UNCHANGED <<ss, now, concVars, stored_at, obs, uiVars>>

NextNum ==
    \/ \E amplitude_um \in MsAmplitudes, distance_km \in MsDistances,
          sampling_rate \in MsSamplingRates, period \in MsPeriods,
          depth_km \in MsDepths, apply_ms_filter \in BOOLEAN :
            CalculateMs(amplitude_um, distance_km, sampling_rate, period, depth_km, apply_ms_filter)

SpecNum == Init /\ [][NextNum]_vars

(***************************************************************************)
(* detect_wave_types.  Samples are in units of 1e-5, so that energies are  *)
(* in units of 1e-10 and the 1e-10 added to the vertical energy is 1.      *)
(* The ratio horizontal_energy / (vertical_energy + 1e-10) is kept as the  *)
(* pair (horizontal_energy, vertical_energy + 1); confidence is in         *)
(* hundredths.                                                             *)
(***************************************************************************)
MaxSamples == 2

Abs(x) == IF x >= 0 THEN x ELSE 0 - x

\* np.sum(component**2)
RECURSIVE energy(_)
energy(component) ==
    IF component = <<>> THEN 0
    ELSE Head(component) * Head(component) + energy(Tail(component))

\* np.array(x) if len(x) > 0 else np.array([0])
as_array(component) == IF Len(component) > 0 THEN component ELSE <<0>>

\* component[start_idx:end_idx]
slice(component, start_idx, end_idx) == SubSeq(component, start_idx + 1, end_idx)

\* time_window = None
NoWindow == <<>>

\* the window in sample indices (sampling rate 1 Hz); end_limit is
\* min(len(north), len(east), len(vertical))
apply_time_window(component, time_window, end_limit) ==
    IF time_window = NoWindow THEN component
    ELSE slice(component, Max(0, time_window[1]), Min(time_window[2], end_limit))

\* ratio > 3.0 -> Love, ratio < 0.5 -> Rayleigh, else Mixed
dominant_type_inclusive(horizontal, vertical_eps) ==
    IF horizontal >= 3 * vertical_eps THEN "Love"
    ELSE IF 2 * horizontal < vertical_eps THEN "Rayleigh"
    ELSE "Mixed"

dominant_type(horizontal, vertical_eps) ==
    IF horizontal > 3 * vertical_eps THEN "Love"
    ELSE IF 2 * horizontal < vertical_eps THEN "Rayleigh"
    ELSE "Mixed"

\* round(num / den, 2) in hundredths for num, den already scaled by 100,
\* a tie going to the even neighbour
RoundRatio(num, den) ==
    IF 2 * (num % den) > den THEN num \div den + 1
    ELSE IF 2 * (num % den) < den THEN num \div den
    ELSE IF (num \div den) % 2 = 0 THEN num \div den
    ELSE num \div den + 1

\* Love: min(ratio / 5.0, 1.0); Rayleigh: min(2.0 / (ratio + 0.1), 1.0);
\* Mixed: 1.0 - abs(ratio - 1.5) / 1.5
confidence(horizontal, vertical_eps, type) ==
    IF type = "Love"
    THEN Min(RoundRatio(100 * horizontal, 5 * vertical_eps), 100)
    ELSE IF type = "Rayleigh"
    THEN Min(RoundRatio(2000 * vertical_eps, 10 * horizontal + vertical_eps), 100)
    ELSE RoundRatio(100 * (3 * vertical_eps - Abs(2 * horizontal - 3 * vertical_eps)),
                    3 * vertical_eps)

wave_types_result(horizontal_energy, vertical_energy, type) ==
    [ok                |-> TRUE,
     dominant_type     |-> type,
     confidence        |-> confidence(horizontal_energy, vertical_energy + 1, type),
     horizontal_energy |-> horizontal_energy,
     vertical_energy   |-> vertical_energy]

wave_types_from_energy(horizontal_energy, vertical_energy) ==
    wave_types_result(horizontal_energy, vertical_energy,
                      dominant_type(horizontal_energy, vertical_energy + 1))

wave_types_in_window(north, east, vertical, time_window, end_limit) ==
    wave_types_from_energy(
        energy(apply_time_window(north, time_window, end_limit))
            + energy(apply_time_window(east, time_window, end_limit)),
        energy(apply_time_window(vertical, time_window, end_limit)))

wave_types_of_arrays(north, east, vertical, time_window) ==
    wave_types_in_window(north, east, vertical, time_window,
                         Min(Len(north), Min(Len(east), Len(vertical))))

\* displacement_data.present is FALSE for an empty displacement_data
detect_wave_types(displacement_data, time_window) ==
    IF ~displacement_data.present
    THEN [ok |-> FALSE, error |-> "No displacement data available"]
    ELSE wave_types_of_arrays(as_array(displacement_data.north),
                              as_array(displacement_data.east),
                              as_array(displacement_data.vertical), time_window)

\* the arguments the routine is called with
Samples == {-1, 0, 2}
Components == UNION {[1..n -> Samples] : n \in 0..MaxSamples}
Displacements ==
    {[present |-> FALSE, north |-> <<>>, east |-> <<>>, vertical |-> <<>>]}
        \cup [present : {TRUE}, north : Components, east : Components,
              vertical : Components]
TimeWindows == {NoWindow, <<0, 1>>, <<1, 2>>}

DetectWaveTypes(displacement_data, time_window) ==
    /\ calc.fn = "none"
    /\ calc' = [fn  |-> "detect_wave_types",
                arg |-> [displacement_data |-> displacement_data,
                         time_window |-> time_window],
                out |-> detect_wave_types(displacement_data, time_window)]
    /\ UNCHANGED <<ss, now, concVars, stored_at, obs, uiVars>>

(***************************************************************************)
(* search_stations on an arbitrary inventory (lines 293-326): the range    *)
(* filter of _process_stations, the sort and the slice.  A station is the  *)
(* record of its network, its code, its best channel priority and its      *)
(* distance to the event.                                                  *)
(***************************************************************************)
CatalogueSeq ==
    <<[station |-> 1, network |-> "IU", channel_priority |-> 99, distance_km |-> 2600],
      [station |-> 2, network |-> "GE", channel_priority |-> 1,  distance_km |-> 700],
      [station |-> 3, network |-> "GT", channel_priority |-> 99, distance_km |-> 900],
      [station |-> 4, network |-> "GT", channel_priority |-> 1,  distance_km |-> 1400],
      [station |-> 5, network |-> "GT", channel_priority |-> 1,  distance_km |-> 450],
      [station |-> 6, network |-> "IC", channel_priority |-> 1,  distance_km |-> 1200]>>

\* what the inventory service can answer with: any of the stations, in the
\* order of the service
Inventories ==
    {SelectSeq(CatalogueSeq, LAMBDA x : x.station \in chosen) :
        chosen \in SUBSET (1..Len(CatalogueSeq))}

SelectRings   == {<<500, 3000>>, <<800, 1500>>}
SelectTargets == 1..3

\* _process_stations: min_distance_km <= distance_km <= max_distance_km
process_inventory(inventory, ring) ==
    SelectSeq(inventory, LAMBDA x : ring[1] <= x.distance_km /\ x.distance_km <= ring[2])

\* list.sort(key = ...) on <<key, station>> pairs: an element goes behind
\* every element that does not sort after it (stable)
RECURSIVE insert_keyed(_, _)
insert_keyed(pair, seq) ==
    IF seq = <<>> THEN <<pair>>
    ELSE IF LexLess(pair[1], Head(seq)[1])
         THEN <<pair>> \o seq
         ELSE <<Head(seq)>> \o insert_keyed(pair, Tail(seq))

RECURSIVE sort_keyed(_)
sort_keyed(seq) ==
    IF seq = <<>> THEN <<>>
    ELSE insert_keyed(seq[Len(seq)], sort_keyed(SubSeq(seq, 1, Len(seq) - 1)))

unkeyed(seq) == [i \in 1..Len(seq) |-> seq[i][2]]

\* all_stations.sort(key=lambda x: (...)) of lines 317-323
sort_all_stations(all_stations) ==
    unkeyed(sort_keyed([i \in 1..Len(all_stations) |->
                            <<sort_key(all_stations[i]), all_stations[i]>>]))

\* lines 308-334 for the stations _process_stations returned
select_stations(all_stations, target_stations) ==
    IF all_stations = <<>> THEN <<>>
    ELSE Take(sort_all_stations(all_stations), target_stations)

search_inventory(inventory, ring, target_stations) ==
    select_stations(process_inventory(inventory, ring), target_stations)

SearchInventory(inventory, ring, target_stations) ==
    /\ calc.fn = "none"
    /\ calc' = [fn  |-> "search_stations",
                arg |-> [inventory |-> inventory, ring |-> ring,
                         target_stations |-> target_stations],
                out |-> search_inventory(inventory, ring, target_stations)]
    /\ UNCHANGED <<ss, now, concVars, stored_at, obs, uiVars>>

NextSelect ==
    \/ \E inventory \in Inventories, ring \in SelectRings, target_stations \in SelectTargets :
            SearchInventory(inventory, ring, target_stations)

SpecSelect == Init /\ [][NextSelect]_vars

\* SpecWaves: one call of a surface-wave routine on arguments drawn from the
\* sets above
NextWaves ==
    \/ \E distance_km \in SwDistances, depth_km \in SwDepths,
          magnitude \in SwMagnitudes, arrivals \in SwArrivals :
            CalculateSurfaceWaveVelocities(distance_km, depth_km, magnitude, arrivals)
    \/ \E displacement_data \in Displacements, time_window \in TimeWindows :
            DetectWaveTypes(displacement_data, time_window)

SpecWaves == Init /\ [][NextWaves]_vars

\* C15: the returned Love velocity is in [3.8, 5.2] km/s, the Rayleigh
\* velocity in [3.0, 4.5] km/s, and Love arrives no later than Rayleigh.
C15_SurfaceWaveVelocityBounds ==
    calc.fn = "calculate_surface_wave_velocities" =>
        /\ calc.out.love_velocity >= 380
        /\ calc.out.love_velocity <= 520
        /\ calc.out.rayleigh_velocity >= 300
        /\ calc.out.rayleigh_velocity <= 450
        /\ calc.out.love_arrival <= calc.out.rayleigh_arrival

\* a deep event: both velocities sit on their lower limits
C15_Witness ==
    /\ calc.fn = "calculate_surface_wave_velocities"
    /\ calc.arg.depth_km = 400
    /\ calc.out.rayleigh_velocity = 300
    /\ calc.out.love_velocity = 380

\* C16: the returned velocities satisfy v_Love = 1.12 * v_Rayleigh, up to the
\* rounding of the two returned values to two decimals.
C16_LoveRayleighRatio ==
    calc.fn = "calculate_surface_wave_velocities" =>
        /\ 100 * calc.out.love_velocity - 112 * calc.out.rayleigh_velocity <= 112
        /\ 112 * calc.out.rayleigh_velocity - 100 * calc.out.love_velocity <= 112

\* C17: for a window of displacement data, detect_wave_types reports exactly
\* one of Love, Rayleigh, Mixed: Love iff the ratio of horizontal energy to
\* (vertical energy + 1e-10) is above 3.0, Rayleigh iff it is below 0.5 and
\* Mixed otherwise, both boundaries included; the confidence lies in [0, 1].
C17_DominantWaveType ==
    (calc.fn = "detect_wave_types" /\ calc.out.ok) =>
        /\ calc.out.dominant_type \in {"Love", "Rayleigh", "Mixed"}
        /\ calc.out.dominant_type = "Love"
               <=> calc.out.horizontal_energy > 3 * (calc.out.vertical_energy + 1)
        /\ calc.out.dominant_type = "Rayleigh"
               <=> 2 * calc.out.horizontal_energy < calc.out.vertical_energy + 1
        /\ calc.out.confidence >= 0
        /\ calc.out.confidence <= 100

\* the ratio is exactly 3.0: Mixed with confidence 0
C17_Witness ==
    /\ calc.fn = "detect_wave_types"
    /\ calc.out.ok
    /\ calc.out.horizontal_energy = 3
    /\ calc.out.vertical_energy = 0
    /\ calc.out.dominant_type = "Mixed"
    /\ calc.out.confidence = 0

\* the inventory stations of the latest search_stations call that lie in its
\* distance range
CandidatesInRange ==
    {x \in SeqRange(calc.arg.inventory) :
        calc.arg.ring[1] <= x.distance_km /\ x.distance_km <= calc.arg.ring[2]}

\* y ranks strictly before x in the order (network_priority,
\* floor(distance_km / 500) if network_priority > 2 else 0, channel_priority,
\* distance_km)
RanksBefore(y, x) ==
    LexLess(<<network_scores(y.network),
              IF network_scores(y.network) > 2 THEN y.distance_km \div 500 ELSE 0,
              y.channel_priority, y.distance_km>>,
            <<network_scores(x.network),
              IF network_scores(x.network) > 2 THEN x.distance_km \div 500 ELSE 0,
              x.channel_priority, x.distance_km>>)

\* C18: search_stations returns exactly min(target_count, n) distinct stations
\* of the n inventory stations in range, and no in-range station that is not
\* returned ranks strictly before a returned one.
C18_FirstOfSortedCandidates ==
    calc.fn = "search_stations" =>
        /\ Len(calc.out) = Min(calc.arg.target_stations, Cardinality(CandidatesInRange))
        /\ Cardinality(SeqRange(calc.out)) = Len(calc.out)
        /\ SeqRange(calc.out) \subseteq CandidatesInRange
        /\ \A x \in SeqRange(calc.out), y \in CandidatesInRange \ SeqRange(calc.out) :
                ~RanksBefore(y, x)

\* two GT stations in range and one place: the station at 900 km (bin 1,
\* no channel listed) is returned, the one at 1400 km (bin 2, BH channel) not
C18_Witness ==
    /\ calc.fn = "search_stations"
    /\ calc.arg.target_stations = 1
    /\ {x.station : x \in CandidatesInRange} = {3, 4}
    /\ Len(calc.out) = 1
    /\ calc.out[1].station = 3

(***************************************************************************)
(* _select_distributed_stations, the branch for more than 100 stations     *)
(* (lines 892-945).  np.linspace(min, max, target_count + 1) is kept       *)
(* exact: distances are compared after multiplying by target_count.        *)
(***************************************************************************)
\* the source's threshold is 100; the model keeps it symbolic and small
LargeDataset == 3

RECURSIVE unique_stations(_, _)
unique_stations(stations, seen) ==
    IF stations = <<>> THEN <<>>
    ELSE IF <<Head(stations).network, Head(stations).station>> \in seen
         THEN unique_stations(Tail(stations), seen)
         ELSE <<Head(stations)>>
                 \o unique_stations(Tail(stations),
                        seen \cup {<<Head(stations).network, Head(stations).station>>})

\* sorted(unique_stations, key=lambda x: x['distance_km'])
sort_by_distance(stations) ==
    unkeyed(sort_keyed([i \in 1..Len(stations) |->
                            <<<<stations[i].distance_km>>, stations[i]>>]))

\* distances.max() - distances.min(), and target_count times the distance
\* of station j from distances.min()
bin_span(sorted) == sorted[Len(sorted)].distance_km - sorted[1].distance_km

bin_offset(sorted, j, target_count) ==
    (sorted[j].distance_km - sorted[1].distance_km) * target_count

\* j not in selected_indices and bin_start <= distance_km <= bin_end
available_stations(sorted, picked, i, target_count) ==
    {j \in 1..Len(sorted) :
        /\ j \notin SeqRange(picked)
        /\ i * bin_span(sorted) <= bin_offset(sorted, j, target_count)
        /\ bin_offset(sorted, j, target_count) <= (i + 1) * bin_span(sorted)}

\* abs(distance_km - bin_center), times 2 * target_count
center_deviation(sorted, j, i, target_count) ==
    Abs(2 * bin_offset(sorted, j, target_count) - (2 * i + 1) * bin_span(sorted))

\* min(available_stations, key=...): the first of the closest ones
best_idx(sorted, available, i, target_count) ==
    CHOOSE j \in available : \A k \in available :
        \/ center_deviation(sorted, j, i, target_count)
               < center_deviation(sorted, k, i, target_count)
        \/ /\ center_deviation(sorted, j, i, target_count)
                  = center_deviation(sorted, k, i, target_count)
           /\ j <= k

\* for i in range(len(bin_edges) - 1): the indices picked, in order
RECURSIVE select_from_bins(_, _, _, _)
select_from_bins(sorted, picked, i, target_count) ==
    IF i >= target_count THEN picked
    ELSE select_from_bins(
             sorted,
             IF available_stations(sorted, picked, i, target_count) = {} THEN picked
             ELSE Append(picked,
                         best_idx(sorted,
                                  available_stations(sorted, picked, i, target_count),
                                  i, target_count)),
             i + 1, target_count)

\* "Fill up if needed"
RECURSIVE fill_up(_, _, _, _)
fill_up(sorted, picked, j, target_count) ==
    IF j > Len(sorted) THEN picked
    ELSE fill_up(sorted,
                 IF j \notin SeqRange(picked) /\ Len(picked) < target_count
                 THEN Append(picked, j) ELSE picked,
                 j + 1, target_count)

stations_at(sorted, picked) == [k \in 1..Len(picked) |-> sorted[picked[k]]]

fast_selection(sorted, target_count) ==
    Take(stations_at(sorted,
                     fill_up(sorted, select_from_bins(sorted, <<>>, 0, target_count),
                             1, target_count)),
         target_count)

select_distributed_fast(stations, target_count) ==
    IF Len(unique_stations(stations, {})) <= target_count
    THEN unique_stations(stations, {})
    ELSE fast_selection(sort_by_distance(unique_stations(stations, {})), target_count)

\* C19: when more candidates are in range than the large-dataset threshold,
\* search_stations returns target_count distinct stations, namely those the
\* equal-width distance binning selects (one per bin, the closest to the bin
\* centre, empty bins filled from the nearest remaining candidates).
C19_DistanceBinning ==
    (calc.fn = "search_stations" /\ Cardinality(CandidatesInRange) > LargeDataset) =>
        /\ Len(calc.out) = calc.arg.target_stations
        /\ Cardinality(SeqRange(calc.out)) = Len(calc.out)
        /\ SeqRange(calc.out) =
               SeqRange(select_distributed_fast(
                            process_inventory(calc.arg.inventory, calc.arg.ring),
                            calc.arg.target_stations))

\* the static list of _fallback_station_list_optimized (an IU and an II
\* station of the model's inventory) and its stations in range
analysis_ready_stations == {2, 4}

AnalysisReadyInRange(e, ring) == {s \in analysis_ready_stations : InRange(e, ring, s)}

\* C20: a station search whose inventory query fails returns stations of the
\* static list that lie in [min_km, max_km], as many as target_count allows,
\* instead of an empty result.
C20_FallbackToStaticList ==
    (obs.kind = "sta" /\ obs.failed) =>
        /\ SeqRange(obs.result) \subseteq AnalysisReadyInRange(obs.key[1], obs.key[2])
        /\ Len(obs.result) =
               Min(obs.key[3], Cardinality(AnalysisReadyInRange(obs.key[1], obs.key[2])))

(***************************************************************************)
(* SpecAcquire: download_waveform_data called directly.  Each of the four  *)
(* client.get_waveforms requests (BH?, HH?, SH?, then channel="*") either  *)
(* raises or returns a stream; a trace is the record of its component      *)
(* letter (channel[-1]) and its sample count.  An array is represented by  *)
(* its length.                                                             *)
(***************************************************************************)
Trace(component, npts) == [component |-> component, npts |-> npts]

\* what one get_waveforms request can answer with
NoTraces == <<>>
Streams ==
    {NoTraces,
     <<Trace("Z", 3)>>,
     <<Trace("Z", 3), Trace("N", 3), Trace("E", 3)>>,
     <<Trace("Z", 3), Trace("N", 2), Trace("E", 3)>>,
     <<Trace("N", 2), Trace("E", 3)>>}

WaveformOutcomes == [raised : BOOLEAN, stream : Streams]

\* lines 1170-1192: the loop over priority_channels from pattern i on;
\* got is the stream assigned last and origin the request it came from
RECURSIVE priority_loop(_, _, _, _)
priority_loop(requests, i, got, origin) ==
    IF i > 3 THEN [stream |-> got, origin |-> origin]
    ELSE IF requests[i].raised THEN priority_loop(requests, i + 1, got, origin)
    ELSE IF Len(requests[i].stream) >= 2
         THEN [stream |-> requests[i].stream, origin |-> i]
         ELSE priority_loop(requests, i + 1, requests[i].stream, i)

\* lines 1195-1213: "if not stream", one request with channel="*"
broad_retry(requests, loop) ==
    IF loop.stream # NoTraces THEN [stream |-> loop.stream, origin |-> loop.origin, broad |-> 0]
    ELSE IF requests[4].raised THEN [stream |-> loop.stream, origin |-> loop.origin, broad |-> 1]
    ELSE [stream |-> requests[4].stream, origin |-> 4, broad |-> 1]

has_component(stream, component) ==
    \E i \in 1..Len(stream) : stream[i].component = component

\* waveform_{comp}, time_{comp}: the last trace of the component
RECURSIVE last_npts(_, _)
last_npts(stream, component) ==
    IF stream[Len(stream)].component = component THEN stream[Len(stream)].npts
    ELSE last_npts(SubSeq(stream, 1, Len(stream) - 1), component)

ComponentLetter(name) ==
    CASE name = "vertical" -> "Z"
      [] name = "north"    -> "N"
      [] name = "east"     -> "E"

\* raw_data and displacement_data (lines 1299-1311, 1371-1391): the lengths
\* of the arrays stored under vertical / north / east
component_lengths(stream) ==
    [name \in {n \in {"vertical", "north", "east"} : has_component(stream, ComponentLetter(n))}
        |-> last_npts(stream, ComponentLetter(name))]

\* lines 1400-1405: time = time_Z, or else the first time_ key
time_length(stream) ==
    IF has_component(stream, "Z") THEN last_npts(stream, "Z")
    ELSE last_npts(stream, stream[1].component)

_process_real_waveform_FIXED(got) ==
    [ok                |-> TRUE,
     origin            |-> got.origin,
     broad             |-> got.broad,
     traces            |-> Len(got.stream),
     time              |-> time_length(got.stream),
     displacement_data |-> component_lengths(got.stream),
     raw_data          |-> component_lengths(got.stream)]

\* lines 1215-1233
process_stream(got) ==
    IF got.stream = NoTraces
    THEN [ok |-> FALSE, origin |-> got.origin, broad |-> got.broad]
    ELSE _process_real_waveform_FIXED(got)

download_stream(requests) ==
    process_stream(broad_retry(requests, priority_loop(requests, 1, NoTraces, 0)))

DownloadWaveformData(requests) ==
    /\ calc.fn = "none"
    /\ calc' = [fn  |-> "download_waveform_data",
                arg |-> requests,
                out |-> download_stream(requests)]
    /\ UNCHANGED <<ss, now, concVars, stored_at, obs, uiVars>>

NextAcquire ==
    \/ \E bh \in WaveformOutcomes, hh \in WaveformOutcomes, sh \in WaveformOutcomes,
          broad \in WaveformOutcomes :
            DownloadWaveformData(<<bh, hh, sh, broad>>)

SpecAcquire == Init /\ [][NextAcquire]_vars

\* C21: every component array of displacement_data and of raw_data of a
\* returned waveform is as long as the shared time axis.
C21_ComponentsMatchTimeAxis ==
    (calc.fn = "download_waveform_data" /\ calc.out.ok) =>
        /\ \A name \in DOMAIN calc.out.displacement_data :
                calc.out.displacement_data[name] = calc.out.time
        /\ \A name \in DOMAIN calc.out.raw_data :
                calc.out.raw_data[name] = calc.out.time

\* what a request left behind: nothing when it raised or returned no trace
LeftNoData(request) == request.raised \/ request.stream = NoTraces

\* C25: a returned waveform is built from the stream of the first priority
\* pattern that yielded at least 2 traces, or else from the broad retry; the
\* broad retry is issued at most once and only when the priority patterns
\* left no data.
C25_PatternPriority ==
    (calc.fn = "download_waveform_data" /\ calc.out.ok) =>
        /\ calc.out.origin \in 1..3 =>
              /\ ~calc.arg[calc.out.origin].raised
              /\ Len(calc.arg[calc.out.origin].stream) >= 2
              /\ \A j \in 1..(calc.out.origin - 1) :
                    calc.arg[j].raised \/ Len(calc.arg[j].stream) < 2
        /\ calc.out.broad <= 1
        /\ calc.out.broad = 1 => \A j \in 1..3 : LeftNoData(calc.arg[j])
        /\ calc.out.origin = 4 => calc.out.broad = 1

(***************************************************************************)
(* SpecWindow: the window _calculate_ms_magnitude cuts out of the          *)
(* components before it calls the Ms estimator.  The record starts         *)
(* pre_event_seconds before the origin time and sample i of a trace has    *)
(* time i / sampling_rate - pre_event_seconds (data_manager.py lines       *)
(* 1351-1357); seconds and sampling rates are whole numbers.               *)
(***************************************************************************)
\* start_time = eq_time - 180, end_time = eq_time + 1800
pre_event_seconds  == 180
post_event_seconds == 1800

record_npts(sampling_rate) == (pre_event_seconds + post_event_seconds) * sampling_rate

\* sampling_rate times the time of sample i
time_times_rate(i, sampling_rate) == i - pre_event_seconds * sampling_rate

\* lines 3753-3759
window_start_idx(window_start, sampling_rate) == Max(0, window_start * sampling_rate)

window_end_idx(window_start, window_duration, sampling_rate, npts) ==
    Min((window_start + window_duration) * sampling_rate, npts)

\* lines 3761-3764: data[start_idx:end_idx] if len(data) > start_idx
ms_window(window_start, window_duration, sampling_rate, npts) ==
    IF npts > window_start_idx(window_start, sampling_rate)
    THEN [start_idx |-> window_start_idx(window_start, sampling_rate),
          end_idx   |-> Max(window_start_idx(window_start, sampling_rate),
                            window_end_idx(window_start, window_duration, sampling_rate, npts))]
    ELSE [start_idx |-> 0, end_idx |-> 0]

\* window starts (s after origin), durations (s) and sampling rates (Hz)
WindowStarts    == {0, 60, 120, 180, 240, 300, 457, 600, 800, 1000, 1200, 1500}
WindowDurations == {60, 300, 600}
WindowRates     == {1, 2, 4}

ExtractMsWindow(window_start, window_duration, sampling_rate) ==
    /\ calc.fn = "none"
    /\ calc' = [fn  |-> "_calculate_ms_magnitude",
                arg |-> [window_start |-> window_start, window_duration |-> window_duration,
                         sampling_rate |-> sampling_rate],
                out |-> ms_window(window_start, window_duration, sampling_rate,
                                  record_npts(sampling_rate))]
    /\ UNCHANGED <<ss, now, concVars, stored_at, obs, uiVars>>

NextWindow ==
    \/ \E window_start \in WindowStarts, window_duration \in WindowDurations,
          sampling_rate \in WindowRates :
            ExtractMsWindow(window_start, window_duration, sampling_rate)

SpecWindow == Init /\ [][NextWindow]_vars

\* C26: the samples handed to the Ms estimator for a window (start_s,
\* duration_s) are exactly those whose time lies in
\* [start_s, start_s + duration_s).
C26_WindowMatchesTimeAxis ==
    calc.fn = "_calculate_ms_magnitude" =>
        \A i \in 0..(record_npts(calc.arg.sampling_rate) - 1) :
            (calc.out.start_idx <= i /\ i < calc.out.end_idx)
                <=> /\ calc.arg.window_start * calc.arg.sampling_rate
                           <= time_times_rate(i, calc.arg.sampling_rate)
                    /\ time_times_rate(i, calc.arg.sampling_rate)
                           < (calc.arg.window_start + calc.arg.window_duration)
                                 * calc.arg.sampling_rate

(***************************************************************************)
(* SpecSignal: apply_bandpass_filter and remove_spikes called directly.    *)
(*                                                                         *)
(* apply_bandpass_filter: frequencies and the sampling rate are in mHz.    *)
(* The data array is the record of how many of its samples are finite and  *)
(* how many are NaN or inf; what a filter returns is given by its length.  *)
(* output_valid tells whether filtfilt produced finite values only.        *)
(***************************************************************************)
\* butter(order = 4, ...) has 2 * 4 + 1 coefficients for a band and 4 + 1
\* otherwise; filtfilt raises ValueError unless len(data) > 3 * coefficients
padlen(filter_type) == IF filter_type = "bandpass" THEN 27 ELSE 15

filter_failure(length, reason) ==
    [length |-> length, success |-> FALSE, reason |-> reason]

\* lines 176-216: filtfilt and the checks of its output
apply_filter_design(length, filter_type, low_freq, high_freq, output_valid) ==
    IF length <= padlen(filter_type) THEN filter_failure(length, "filter_error")
    ELSE IF ~output_valid THEN filter_failure(length, "filter_produced_invalid")
    ELSE [length |-> length, success |-> TRUE, filter_type |-> filter_type,
          low_freq |-> low_freq, high_freq |-> high_freq]

\* lines 153-170: the band-pass branch after low_freq < high_freq; butter
\* rejects a band whose edges are not increasing
design_bandpass(length, sampling_rate, low_freq, high_freq, output_valid) ==
    IF low_freq >= high_freq THEN filter_failure(length, "unexpected_error")
    ELSE apply_filter_design(length, "bandpass", low_freq, high_freq, output_valid)

adjusted_high(sampling_rate, high_freq) ==
    IF 200 * high_freq >= 95 * sampling_rate THEN (9 * sampling_rate) \div 20 ELSE high_freq

adjusted_low(low_freq) == IF low_freq <= 1 THEN 5 ELSE low_freq

\* lines 121-174: the choice of the filter for the cleaned data
design_filter(length, sampling_rate, low_freq, high_freq, output_valid) ==
    IF low_freq <= 0
    THEN IF 200 * high_freq >= 95 * sampling_rate
         THEN filter_failure(length, "frequency_too_high")
         ELSE apply_filter_design(length, "highpass", low_freq, high_freq, output_valid)
    ELSE IF 2 * high_freq >= sampling_rate
    THEN IF 200 * low_freq >= 95 * sampling_rate
         THEN filter_failure(length, "frequency_too_high")
         ELSE apply_filter_design(length, "lowpass", low_freq, high_freq, output_valid)
    ELSE IF low_freq >= high_freq
    THEN filter_failure(length, "invalid_band")
    ELSE design_bandpass(length, sampling_rate, adjusted_low(low_freq),
                         adjusted_high(sampling_rate, high_freq), output_valid)

\* lines 102-119: empty data, and the samples that are not finite
apply_bandpass_filter(data, sampling_rate, low_freq, high_freq, output_valid) ==
    IF data.finite + data.nonfinite = 0
    THEN filter_failure(0, "empty_data")
    ELSE IF data.nonfinite > 0 /\ 2 * data.finite < data.finite + data.nonfinite
    THEN filter_failure(data.finite + data.nonfinite, "invalid_data")
    ELSE design_filter(data.finite, sampling_rate, low_freq, high_freq, output_valid)

\* the arguments the routine is called with
FilterData      == [finite : {0, 10, 30, 100}, nonfinite : {0, 5, 40}]
FilterRates     == {1000, 20000}
FilterLowFreqs  == {0, 1, 20, 100, 460, 480}
FilterHighFreqs == {100, 450, 480, 500, 600, 9600, 12000}

ApplyBandpassFilter(data, sampling_rate, low_freq, high_freq, output_valid) ==
    /\ calc.fn = "none"
    /\ calc' = [fn  |-> "apply_bandpass_filter",
                arg |-> [data |-> data, sampling_rate |-> sampling_rate,
                         low_freq |-> low_freq, high_freq |-> high_freq,
                         output_valid |-> output_valid],
                out |-> apply_bandpass_filter(data, sampling_rate, low_freq, high_freq,
                                              output_valid)]
    /\ UNCHANGED <<ss, now, concVars, stored_at, obs, uiVars>>

(***************************************************************************)
(* remove_spikes.  np.median of an even number of samples is the mean of   *)
(* the two middle ones, so medians are kept doubled: median2 is twice the  *)
(* median, the deviations are twice |x - median| and mad4 is four times    *)
(* the MAD.                                                                *)
(***************************************************************************)
sorted_values(data) ==
    unkeyed(sort_keyed([i \in 1..Len(data) |-> <<<<data[i]>>, data[i]>>]))

median2_sorted(sorted) ==
    IF Len(sorted) % 2 = 1 THEN 2 * sorted[(Len(sorted) + 1) \div 2]
    ELSE sorted[Len(sorted) \div 2] + sorted[Len(sorted) \div 2 + 1]

median2(data) == median2_sorted(sorted_values(data))

deviations2(data, med2) == [i \in 1..Len(data) |-> Abs(2 * data[i] - med2)]

\* z_scores > threshold: |x - median| / (1.4826 * mad) > 5.0
is_spike(data, i, med2, mad4) == 20000 * Abs(2 * data[i] - med2) > 74130 * mad4

\* scipy.signal.medfilt(data, 5): zero padding at both ends
padded(data, i) == IF i < 1 \/ i > Len(data) THEN 0 ELSE data[i]

medfilt5(data, i) ==
    sorted_values(<<padded(data, i - 2), padded(data, i - 1), padded(data, i),
                    padded(data, i + 1), padded(data, i + 2)>>)[3]

remove_spikes_with(data, med2, mad4) ==
    IF mad4 > 0
    THEN [cleaned_data |-> [i \in 1..Len(data) |->
                               IF is_spike(data, i, med2, mad4) THEN medfilt5(data, i)
                               ELSE data[i]],
          spikes       |-> Cardinality({i \in 1..Len(data) : is_spike(data, i, med2, mad4)})]
    ELSE [cleaned_data |-> data, spikes |-> 0]

remove_spikes_around(data, med2) ==
    remove_spikes_with(data, med2, median2(deviations2(data, med2)))

remove_spikes(data) == remove_spikes_around(data, median2(data))

\* the arrays the routine is called with
MinSpikeLen  == 6
MaxSpikeLen  == 7
SpikeSamples == {-1, 0, 50}
SpikeData    == UNION {[1..n -> SpikeSamples] : n \in MinSpikeLen..MaxSpikeLen}

\* remove_spikes on data, then on the array it returned
second_pass(data, first) ==
    [data |-> data, first |-> first, second |-> remove_spikes(first.cleaned_data)]

RemoveSpikes(data) ==
    /\ calc.fn = "none"
    /\ calc' = [fn  |-> "remove_spikes",
                arg |-> data,
                out |-> second_pass(data, remove_spikes(data))]
    /\ UNCHANGED <<ss, now, concVars, stored_at, obs, uiVars>>

NextSignal ==
    \/ \E data \in FilterData, sampling_rate \in FilterRates, low_freq \in FilterLowFreqs,
          high_freq \in FilterHighFreqs, output_valid \in BOOLEAN :
            ApplyBandpassFilter(data, sampling_rate, low_freq, high_freq, output_valid)
    \/ \E data \in SpikeData : RemoveSpikes(data)

SpecSignal == Init /\ [][NextSignal]_vars

\* C22: for 0 < f_lo < f_hi with f_hi >= 0.95 * (fs / 2), f_hi >= fs / 2
\* included, apply_bandpass_filter reports a failure or a band-pass whose
\* high_freq is 0.9 * (fs / 2).
C22_HighEdgeClamped ==
    (/\ calc.fn = "apply_bandpass_filter"
     /\ 0 < calc.arg.low_freq
     /\ calc.arg.low_freq < calc.arg.high_freq
     /\ 200 * calc.arg.high_freq >= 95 * calc.arg.sampling_rate) =>
        \/ ~calc.out.success
        \/ /\ calc.out.filter_type = "bandpass"
           /\ 20 * calc.out.high_freq = 9 * calc.arg.sampling_rate

\* C23: for a non-empty input with at most 50% non-finite samples the
\* returned array is as long as the input, on success and on failure.
C23_FilterKeepsLength ==
    (/\ calc.fn = "apply_bandpass_filter"
     /\ calc.arg.data.finite + calc.arg.data.nonfinite > 0
     /\ 2 * calc.arg.data.nonfinite <= calc.arg.data.finite + calc.arg.data.nonfinite) =>
        calc.out.length = calc.arg.data.finite + calc.arg.data.nonfinite

\* C24: the second pass of remove_spikes flags no sample and returns the
\* output of the first pass unchanged, and the first pass modifies no sample
\* that it did not flag.
C24_SpikeRemovalIdempotent ==
    calc.fn = "remove_spikes" =>
        /\ calc.out.second.spikes = 0
        /\ calc.out.second.cleaned_data = calc.out.first.cleaned_data
        /\ \A i \in 1..Len(calc.arg) :
              ~is_spike(calc.arg, i, median2(calc.arg),
                        median2(deviations2(calc.arg, median2(calc.arg))))
                  => calc.out.first.cleaned_data[i] = calc.arg[i]

(***************************************************************************)
(* SpecPair: the selection of events and stations with station lists of    *)
(* more than one station, so that the user can go from one station of a    *)
(* list to another.  The analysis tabs are rendered but none of their      *)
(* buttons is clicked.                                                     *)
(***************************************************************************)
MaxListTarget == 2    \* the "Antal stationer" of these runs

\* the pages these runs go to by the sidebar
PairViews == {"start", "analysis_stations", "unified_analysis"}

NextPair ==
    \/ Rerun
    \/ \E view \in PairViews : SidebarNav(view)
    \/ BreadcrumbBack
    \/ \E e \in Events : SelectEarthquake(e)
    \/ \E ring \in Rings : SearchClick(ring, MaxListTarget)
    \/ \E i \in 1..MaxListTarget : ShowSeismogram(i)
    \/ SearchNewStations
    \/ SearchOtherStations
    \/ ChooseOtherEarthquake

SpecPair == Init /\ [][NextPair]_vars

(***************************************************************************)
(* The waveform on display and the selection.                              *)
(***************************************************************************)
\* C28: a waveform_data that is not None is the waveform of the selected
\* (event, station) pair.
C28_WaveformOfSelectedPair ==
    ss.waveform_data # NoKey =>
        ss.waveform_data = <<ss.selected_earthquake, ss.selected_station>>

\* the user went from the analysed first station of a two-station list to
\* the second, whose download succeeded
C28_Witness ==
    /\ ss.waveform_data = <<1, 4>>
    /\ ss.station_list = <<2, 4>>
    /\ <<1, 2>> \in ss.waveform_cache
    /\ ss.last_station_key = <<1, 2>>

(***************************************************************************)
(* The failed set and the download attempts.                               *)
(***************************************************************************)
\* C29: a station enters the failed set only if a download attempt for it
\* returned None after it was selected last.
C29_FailedOnlyAfterAttempt ==
    [][(ss'.failed_station_downloads \ ss.failed_station_downloads) \subseteq attempted]_vars

Rerender == ss.current_view = "unified_analysis" /\ SidebarNav("unified_analysis")

NextFallback ==
    \/ Rerun
    \/ Rerender
    \/ SidebarNav("analysis_stations")
    \/ \E e \in Events : SelectEarthquake(e)
    \/ \E ring \in Rings, target \in Targets : SearchClick(ring, target)
    \/ \E i \in 1..(2 * MaxTarget) : ShowSeismogram(i)
    \/ SearchNewStations
    \/ SearchOtherStations
    \/ ChooseOtherEarthquake

\* a run ended in st.rerun(): the next run is due, and it changes the state
RerunDue == screen = "rerun"

\* the page of a failed download: a rendering takes the fallback branch,
\* which leaves another page
RerenderDue ==
    /\ screen = "analysis_wait"
    /\ ss.current_view = "unified_analysis"
    /\ ss.selected_station # NoStation
    /\ ss.download_failed = get_current_station_key(ss)

\* a due run is a step that can be taken: RerunDue implies
\* ENABLED <<Rerun>>_vars and RerenderDue implies ENABLED <<Rerender>>_vars
DueRunsChangeState ==
    \A inv \in InventoryOutcomes, dl \in DownloadOutcomes :
        /\ RerunDue =>
                \/ run(ss, "none", 0, inv, dl).ss # ss
                \/ run(ss, "none", 0, inv, dl).screen # screen
        /\ RerenderDue =>
                run(ss, "nav", "unified_analysis", inv, dl).screen # screen

\* weak fairness of Rerun and of Rerender where they are due: a run that is
\* due forever is eventually taken
SpecFallback ==
    /\ Init /\ [][NextFallback]_vars
    /\ ([]<>~RerunDue \/ []<><<Rerun>>_vars)
    /\ ([]<>~RerenderDue \/ []<><<Rerender>>_vars)

\* lines 2544-2561: the next render of the analysis view takes the fallback
FailedDownload ==
    /\ ss.current_view = "unified_analysis"
    /\ ss.selected_station # NoStation
    /\ ss.waveform_data = NoKey
    /\ get_current_station_key(ss) \notin ss.waveform_cache
    /\ ss.download_failed = get_current_station_key(ss)

\* where a fallback chain ends, and what the user can do instead
FallbackEnded ==
    \/ ss.waveform_data # NoKey
    \/ screen = "analysis_terminal"
    \/ ss.current_view # "unified_analysis"

\* a fallback run that found a station to try next
FallbackIteration ==
    reads'.searched = "excluding_failed" /\ reads'.search_result # {}

\* the chain ends: a loaded waveform or the terminal error, unless the user
\* leaves the analysis view
FallbackReachesEnd == FailedDownload ~> FallbackEnded

\* every fallback iteration makes the failed set strictly larger
FallbackEnlarges ==
    [][FallbackIteration =>
            /\ ss.failed_station_downloads \subseteq ss'.failed_station_downloads
            /\ ss.failed_station_downloads # ss'.failed_station_downloads]_vars

\* no download is attempted for a station that a download was already
\* attempted for since the user selected a station
NoSecondDownload == [][downloaded_by(ss, ss') \cap chain = {}]_vars

\* C27: from a failed download the session reaches a loaded waveform or the
\* terminal error, every fallback iteration strictly enlarges the failed
\* set, and no station is downloaded twice within one fallback chain.
C27_FallbackTerminates ==
    FallbackReachesEnd /\ FallbackEnlarges /\ NoSecondDownload

====
